---- MODULE Spec2Model ----
(***************************************************************************)
(* A model of unicon: fetch -> transform -> export (CSV) -> import         *)
(* (markdown files) -> commit (git history).                               *)
(*                                                                         *)
(* Text is modelled as a sequence of one-character strings, so that the    *)
(* conversions of the program (CSV quoting and parsing, whitespace         *)
(* trimming, filename formatting and parsing) are computed character by    *)
(* character, as the code computes them.                                   *)
(***************************************************************************)
EXTENDS Integers, Sequences, FiniteSets, TLC

VARIABLES
    csvData,      \* array_to_csv: the record list being exported
    csvText,      \* the text written to the CSV file
    csvParsed,    \* parse_csv_file: the rows read back
    csvPc,        \* position in the export/parse round trip
    csvFile,      \* exports/commits.csv: whether it exists, and its text
    trApi,        \* transform: the object returned by the remote API
    trRecord,     \* the record the transform built from it
    trRow,        \* the CSV data row exported for the record
    trPc,         \* position in the transform/export pipeline
    exports,      \* exports/: for each type, whether its CSV exists, and its text
    outDirs,      \* contributions/: for each type, whether its directory exists
    mdFiles,      \* contributions/<type>/: the markdown files
    impFlags,     \* import_contributions: the types requested
    impPc,        \* import_contributions: position
    impResults,   \* import_contributions: results[type]
    impError,     \* import_contributions: the exception raised, if any
    impRun,       \* how many runs of import_contributions have started
    impPrev,      \* the CSVs the fetch stage exported, and the markdown files
                  \* as they were when the run before this one returned
    gitIndex,     \* git: the paths staged
    gitLog,       \* git: the commits, oldest first
    gitFailures,  \* git: how many git commands have failed so far
    cmTypes,      \* commit_contributions: commit_types
    cmPc,         \* commit_contributions: position
    cmQueue,      \* commit_contributions: all_files, once sorted
    cmPos,        \* commit_contributions: index of the file the loop is at
    cmStats,      \* commit_contributions: committed, skipped, errors
    cmRun,        \* how many runs of commit_contributions have started
    cmPrev,       \* the outcome of the run before this one
    cliArgv,      \* main: sys.argv[1], or "" when there is none
    cliEnv,       \* the environment: is GITHUB_TOKEN set, is GITHUB_USERNAME set
    cliOp,        \* main: operation
    cliPc,        \* main: position
    cliTrace,     \* the stages main has run, in order
    cliExit,      \* the exit status of the process, -1 while it runs
    cliComplete,  \* "All operations complete!" was printed
    cliArgs,      \* sys.argv[2:], the arguments after the operation
    cliCsv,       \* exports/: for each type, whether its CSV file exists
    cliWork,      \* the stages that went to work, with the types they worked
                  \* on and the CSV files they wrote or deleted
    cliSuccess,   \* main: what each stage started came to, in order
    nmItems,      \* file names: two records of the CSV, each with its type
    nmNames,      \* the file names the import gives them
    nmIso,        \* what parse_date_from_filename reads in the names
    nmGit,        \* what format_date_for_git makes of that
    nmPc,         \* position in the naming pipeline
    ftArgs,       \* process_repositories: the flags of the types and since_date
    ftAware,      \* the API client gives datetimes aware of UTC, or naive ones
    ftPc,         \* process_repositories: position
    ftAnswer,     \* what the remote API answered to the last request
    ftOut,        \* all_commits, all_pull_requests, all_code_reviews, stats
    ftLog,        \* the errors and warnings printed
    ftSummary     \* the lines display_fetch_summary printed

csvVars == <<csvData, csvText, csvParsed, csvPc, csvFile>>
trVars == <<trApi, trRecord, trRow, trPc>>
fsVars == <<exports, outDirs, mdFiles>>
impVars == <<impFlags, impPc, impResults, impError, impRun, impPrev>>
gitVars == <<gitIndex, gitLog, gitFailures>>
cmVars == <<cmTypes, cmPc, cmQueue, cmPos, cmStats, cmRun, cmPrev>>
cliVars == <<cliArgv, cliEnv, cliOp, cliPc, cliTrace, cliExit, cliComplete,
            cliArgs, cliCsv, cliWork, cliSuccess>>
nmVars == <<nmItems, nmNames, nmIso, nmGit, nmPc>>
ftVars == <<ftArgs, ftAware, ftPc, ftAnswer, ftOut, ftLog, ftSummary>>

vars == <<csvData, csvText, csvParsed, csvPc, csvFile, trApi, trRecord, trRow, trPc,
          exports, outDirs, mdFiles, impFlags, impPc, impResults, impError,
          impRun, impPrev,
          gitIndex, gitLog, gitFailures,
          cmTypes, cmPc, cmQueue, cmPos, cmStats, cmRun, cmPrev,
          cliArgv, cliEnv, cliOp, cliPc, cliTrace, cliExit, cliComplete,
          cliArgs, cliCsv, cliWork, cliSuccess,
          nmItems, nmNames, nmIso, nmGit, nmPc,
          ftArgs, ftAware, ftPc, ftAnswer, ftOut, ftLog, ftSummary>>

\* what the actions of one stage leave alone
notCsv == <<trVars, fsVars, impVars, gitVars, cmVars, cliVars, nmVars, ftVars>>
notTr == <<csvVars, fsVars, impVars, gitVars, cmVars, cliVars, nmVars, ftVars>>
notImp == <<csvVars, trVars, gitVars, cmVars, cliVars, nmVars, ftVars>>
notCm == <<csvVars, trVars, exports, outDirs, mdFiles, impVars, cliVars, nmVars, ftVars>>
notCli == <<csvVars, trVars, fsVars, impVars, gitVars, cmVars, nmVars, ftVars>>
notNm == <<csvVars, trVars, fsVars, impVars, gitVars, cmVars, cliVars, ftVars>>
notFt == <<csvVars, trVars, fsVars, impVars, gitVars, cmVars, cliVars, nmVars>>

-----------------------------------------------------------------------------
(* Bounds *)

MaxLen == 2          \* longest free-text value of a record
MaxRecords == 2      \* longest record list exported
MaxRows == 2         \* most rows of a CSV file imported
MaxFiles == 3        \* most markdown files in the contribution directories
MaxGitFailures == 2  \* most git commands that fail in one behaviour
MaxRuns == 2         \* most runs of one stage in one behaviour
MaxRepos == 2        \* most repositories the user has
MaxHits == 2         \* most hits of a search
MaxReviews == 2      \* most reviews of a pull request

-----------------------------------------------------------------------------
(* Text helpers: Python str methods on character sequences *)

\* str.replace(old, new) for a one-character old and a text new
RECURSIVE Replace(_, _, _)
Replace(s, old, new) ==
    IF s = <<>> THEN <<>>
    ELSE (IF Head(s) = old THEN new ELSE <<Head(s)>>) \o Replace(Tail(s), old, new)

\* `c in s`
Contains(s, c) == \E i \in 1..Len(s) : s[i] = c

\* characters str.strip() removes
Whitespace == {" ", "\n", "\r", "\t"}

RECURSIVE LStrip(_)
LStrip(s) ==
    IF s # <<>> /\ Head(s) \in Whitespace THEN LStrip(Tail(s)) ELSE s

RECURSIVE RStrip(_)
RStrip(s) ==
    IF s # <<>> /\ s[Len(s)] \in Whitespace THEN RStrip(SubSeq(s, 1, Len(s) - 1)) ELSE s

\* str.strip()
Strip(s) == RStrip(LStrip(s))

\* sep.join(parts)
RECURSIVE Join(_, _)
Join(parts, sep) ==
    IF parts = <<>> THEN <<>>
    ELSE IF Len(parts) = 1 THEN parts[1]
    ELSE parts[1] \o sep \o Join(Tail(parts), sep)

\* all texts over an alphabet, up to a length
RECURSIVE TextsUpTo(_, _)
TextsUpTo(alphabet, n) ==
    IF n = 0 THEN {<<>>}
    ELSE LET shorter == TextsUpTo(alphabet, n - 1)
         IN  shorter \cup {Append(t, c) : t \in shorter, c \in alphabet}

\* all sequences over a set, up to a length
RECURSIVE SeqsUpTo(_, _)
SeqsUpTo(S, n) ==
    IF n = 0 THEN {<<>>}
    ELSE LET shorter == SeqsUpTo(S, n - 1)
         IN  shorter \cup {Append(t, x) : t \in shorter, x \in S}

Digits == {"0", "1", "2", "3", "4", "5", "6", "7", "8", "9"}

DigitVal(c) ==
    CASE c = "0" -> 0 [] c = "1" -> 1 [] c = "2" -> 2 [] c = "3" -> 3 [] c = "4" -> 4
      [] c = "5" -> 5 [] c = "6" -> 6 [] c = "7" -> 7 [] c = "8" -> 8 [] c = "9" -> 9

DigitChar(n) == CHOOSE c \in Digits : DigitVal(c) = n

\* int(text) for a text of digits
RECURSIVE ToInt(_)
ToInt(s) == IF s = <<>> THEN 0 ELSE 10 * ToInt(SubSeq(s, 1, Len(s) - 1)) + DigitVal(s[Len(s)])

\* str(n) for n >= 0
RECURSIVE ToStr(_)
ToStr(n) == IF n < 10 THEN <<DigitChar(n)>> ELSE Append(ToStr(n \div 10), DigitChar(n % 10))

-----------------------------------------------------------------------------
(* utils/csv_utils.py *)

\* escape_csv_field: wrap in quotes and double the quotes when the field
\* holds a comma, a quote or a newline
escape_csv_field(field) ==
    IF Contains(field, ",") \/ Contains(field, "\"") \/ Contains(field, "\n")
    THEN <<"\"">> \o Replace(field, "\"", <<"\"", "\"">>) \o <<"\"">>
    ELSE field

\* csv.writer (excel dialect, QUOTE_MINIMAL) on one field: a field holding
\* the delimiter, the quote character or a line-terminator character is
\* quoted, its quotes doubled
WriterField(field) ==
    IF Contains(field, ",") \/ Contains(field, "\"")
       \/ Contains(field, "\n") \/ Contains(field, "\r")
    THEN <<"\"">> \o Replace(field, "\"", <<"\"", "\"">>) \o <<"\"">>
    ELSE field

\* csv.writer.writerow: fields joined by commas, terminated by CR LF; a row
\* made of one empty field is written as ""
WriteRow(fields) ==
    (IF Len(fields) = 1 /\ fields[1] = <<>>
     THEN <<"\"", "\"">>
     ELSE Join([i \in 1..Len(fields) |-> WriterField(fields[i])], <<",">>))
    \o <<"\r", "\n">>

\* row.get(header, "")
RowGet(row, header) == IF header \in DOMAIN row THEN row[header] ELSE <<>>

RECURSIVE WriteRows(_, _)
WriteRows(data, headers) ==
    IF data = <<>> THEN <<>>
    ELSE WriteRow([i \in 1..Len(headers) |-> escape_csv_field(RowGet(data[1], headers[i]))])
         \o WriteRows(Tail(data), headers)

\* array_to_csv
array_to_csv(data, headers) ==
    IF data = <<>> THEN Join(headers, <<",">>)
    ELSE WriteRow(headers) \o WriteRows(data, headers)

-----------------------------------------------------------------------------
(* services/import_service.py: parse_csv_file *)

\* open(path, "r"): universal newlines, CR LF and a lone CR are read as LF
ReadText(t) ==
    LET pairs == [i \in 1..Len(t) |-> <<t[i], IF i > 1 THEN t[i - 1] ELSE "">>]
        kept == SelectSeq(pairs, LAMBDA p : ~(p[1] = "\n" /\ p[2] = "\r"))
    IN  [i \in 1..Len(kept) |-> IF kept[i][1] = "\r" THEN "\n" ELSE kept[i][1]]

\* iterating over the file: the lines of the text, each with its line feed
FileLines(t) ==
    LET n == Len(t)
        ends == SelectSeq([i \in 1..n |-> i], LAMBDA i : t[i] = "\n" \/ i = n)
    IN  [k \in 1..Len(ends) |-> SubSeq(t, IF k = 1 THEN 1 ELSE ends[k - 1] + 1, ends[k])]

\* csv.reader (excel dialect, not strict) on the characters of one line,
\* then on the end of the line. st is the state of the parser: "SR" start
\* of record, "SF" start of field, "IF" in unquoted field, "IQ" in quoted
\* field, "QQ" quote seen in a quoted field, "EAT" after the line feed.
\* done: the record is complete (row); otherwise a quoted field goes on in
\* the next line.
RECURSIVE ReaderLine(_, _, _, _)
ReaderLine(line, st, field, row) ==
    IF line = <<>>
    THEN CASE st = "IQ" -> [done |-> FALSE, field |-> field, row |-> row]
           [] st \in {"SR", "EAT"} -> [done |-> TRUE, field |-> <<>>, row |-> row]
           [] OTHER -> [done |-> TRUE, field |-> <<>>, row |-> Append(row, field)]
    ELSE LET c == Head(line)
             r == Tail(line)
         IN  CASE st = "SR" ->
                    IF c = "\n" THEN ReaderLine(r, "EAT", <<>>, row)
                    ELSE ReaderLine(line, "SF", <<>>, row)
               [] st = "SF" ->
                    IF c = "\n" THEN ReaderLine(r, "EAT", <<>>, Append(row, <<>>))
                    ELSE IF c = "\"" THEN ReaderLine(r, "IQ", <<>>, row)
                    ELSE IF c = "," THEN ReaderLine(r, "SF", <<>>, Append(row, <<>>))
                    ELSE ReaderLine(r, "IF", <<c>>, row)
               [] st = "IF" ->
                    IF c = "\n" THEN ReaderLine(r, "EAT", <<>>, Append(row, field))
                    ELSE IF c = "," THEN ReaderLine(r, "SF", <<>>, Append(row, field))
                    ELSE ReaderLine(r, "IF", Append(field, c), row)
               [] st = "IQ" ->
                    IF c = "\"" THEN ReaderLine(r, "QQ", field, row)
                    ELSE ReaderLine(r, "IQ", Append(field, c), row)
               [] st = "QQ" ->
                    IF c = "\"" THEN ReaderLine(r, "IQ", Append(field, c), row)
                    ELSE IF c = "," THEN ReaderLine(r, "SF", <<>>, Append(row, field))
                    ELSE IF c = "\n" THEN ReaderLine(r, "EAT", <<>>, Append(row, field))
                    ELSE ReaderLine(r, "IF", Append(field, c), row)
               [] OTHER -> ReaderLine(r, "EAT", <<>>, row)

\* csv.reader over the lines: a record takes lines until it is complete; at
\* the end of the input an open quoted field is closed. A record of no
\* field (a blank line) is returned as <<>>.
RECURSIVE ReaderLines(_, _, _, _, _, _)
ReaderLines(lines, k, inQuoted, field, row, rows) ==
    IF k > Len(lines)
    THEN IF inQuoted THEN Append(rows, Append(row, field)) ELSE rows
    ELSE LET r == ReaderLine(lines[k], IF inQuoted THEN "IQ" ELSE "SR", field, row)
         IN  IF r.done
             THEN ReaderLines(lines, k + 1, FALSE, <<>>, <<>>, Append(rows, r.row))
             ELSE ReaderLines(lines, k + 1, TRUE, r.field, r.row, rows)

\* csv.reader over a text file
CsvReader(text) == ReaderLines(FileLines(ReadText(text)), 1, FALSE, <<>>, <<>>, <<>>)

\* csv.DictReader skips the rows of no field
NonBlank(rows) == SelectSeq(rows, LAMBDA r : r # <<>>)

\* one row of DictReader, then the comprehension of parse_csv_file:
\* {k: v.strip() if v else "" for k, v in row.items()}; a missing value is
\* None and becomes ""; with duplicate field names the last one wins
DictRow(fieldnames, row) ==
    [k \in {fieldnames[i] : i \in 1..Len(fieldnames)} |->
        LET last == CHOOSE i \in 1..Len(fieldnames) :
                        /\ fieldnames[i] = k
                        /\ \A j \in 1..Len(fieldnames) : fieldnames[j] = k => j <= i
        IN  IF last <= Len(row) THEN Strip(row[last]) ELSE <<>>]

\* parse_csv_file on the text of an existing file; it raises when a row has
\* more fields than the header (the surplus is a list stored under the key
\* None, and a list has no strip())
parse_csv_file(text) ==
    LET rows == NonBlank(CsvReader(text))
    IN  IF rows = <<>> THEN [raised |-> FALSE, items |-> <<>>]
        ELSE IF \E i \in 2..Len(rows) : Len(rows[i]) > Len(rows[1])
             THEN [raised |-> TRUE, items |-> <<>>]
        ELSE [raised |-> FALSE,
              items |-> [i \in 1..(Len(rows) - 1) |-> DictRow(rows[1], rows[i + 1])]]

-----------------------------------------------------------------------------
(* The CSV round trip: export a record list, read it back *)

\* characters of free-text values
ValueChars == {"a", " ", ",", "\"", "\n"}

\* header names (two columns of COMMIT_CSV_HEADERS)
H_short_sha == <<"s", "h", "o", "r", "t", "_", "s", "h", "a">>
H_message == <<"m", "e", "s", "s", "a", "g", "e">>
CsvHeaders == <<H_short_sha, H_message>>

CsvRecords ==
    {[k \in {H_short_sha, H_message} |-> IF k = H_short_sha THEN id ELSE msg] :
        id \in {<<"a", "b", "c">>}, msg \in TextsUpTo(ValueChars, MaxLen)}

NoParse == [raised |-> FALSE, items |-> <<>>]

\* exports/commits.csv before the export: no file, or the file an earlier
\* fetch wrote for one record
NoFile == [exists |-> FALSE, text |-> <<>>]
EarlierRecord ==
    [k \in {H_short_sha, H_message} |-> IF k = H_short_sha THEN <<"o", "l", "d">> ELSE <<"a">>]
EarlierExport == [exists |-> TRUE, text |-> array_to_csv(<<EarlierRecord>>, CsvHeaders)]

CsvIdle ==
    /\ csvData = <<>>
    /\ csvText = <<>>
    /\ csvParsed = NoParse
    /\ csvPc = "idle"
    /\ csvFile = NoFile

CsvStart ==
    /\ csvData \in SeqsUpTo(CsvRecords, MaxRecords)
    /\ csvText = <<>>
    /\ csvParsed = NoParse
    /\ csvPc = "start"
    /\ csvFile \in {NoFile, EarlierExport}

\* array_to_csv(data, headers), the text then written to the file
CsvExport ==
    /\ csvPc = "start"
    /\ csvText' = array_to_csv(csvData, CsvHeaders)
    /\ csvPc' = "exported"
    /\ UNCHANGED <<csvData, csvParsed, csvFile>>
    /\ UNCHANGED notCsv

\* parse_csv_file(csv_path) on the file just written
CsvParse ==
    /\ csvPc = "exported"
    /\ csvParsed' = parse_csv_file(csvText)
    /\ csvPc' = "parsed"
    /\ UNCHANGED <<csvData, csvText, csvFile>>
    /\ UNCHANGED notCsv

\* export_commits_to_csv(commits), as export_to_csv calls it: nothing for an
\* empty list; otherwise array_to_csv and output_path.write_text
ExportCommits ==
    /\ csvPc = "start"
    /\ IF csvData = <<>>
       THEN UNCHANGED <<csvText, csvFile>>
       ELSE /\ csvText' = array_to_csv(csvData, CsvHeaders)
            /\ csvFile' = [exists |-> TRUE, text |-> csvText']
    /\ csvPc' = "written"
    /\ UNCHANGED <<csvData, csvParsed>>
    /\ UNCHANGED notCsv

-----------------------------------------------------------------------------
(* api/commits.py, api/pull_requests.py, api/code_reviews.py: the transforms, *)
(* on the free-text fields of the API objects                                *)

\* characters of the free text the API returns
ApiChars == {"a", " ", "\n", "\r"}
ApiTexts == TextsUpTo(ApiChars, MaxLen)

\* message.split("\n")[0]
RECURSIVE FirstLine(_)
FirstLine(s) ==
    IF s = <<>> \/ Head(s) = "\n" THEN <<>> ELSE <<Head(s)>> \o FirstLine(Tail(s))

\* (text or "").replace("\n", " ").replace("\r", " ").strip()
Sanitize(text) == Strip(Replace(Replace(text, "\n", <<" ">>), "\r", <<" ">>))

\* a value of the API that may be None
None == [isNone |-> TRUE, text |-> <<>>]
Some(t) == [isNone |-> FALSE, text |-> t]
Nullable(texts) == {None} \cup {Some(t) : t \in texts}

\* `x or ""`
OrEmpty(v) == IF v.isNone THEN <<>> ELSE v.text

\* str.replace(old, new) for texts old and new
RECURSIVE ReplaceText(_, _, _)
ReplaceText(s, old, new) ==
    IF Len(s) < Len(old) THEN s
    ELSE IF SubSeq(s, 1, Len(old)) = old
    THEN new \o ReplaceText(SubSeq(s, Len(old) + 1, Len(s)), old, new)
    ELSE <<Head(s)>> \o ReplaceText(Tail(s), old, new)

\* a datetime of the API client: None, or a date and a time of day of whole
\* seconds, either naive or aware of its time zone, which is UTC
NoTime == [isNone |-> TRUE, at |-> <<0, 0, 0, 0, 0, 0>>, aware |-> FALSE]
DateTime(at, aware) == [isNone |-> FALSE, at |-> at, aware |-> aware]

\* f"{n:0{width}d}"
RECURSIVE ZeroPad(_, _)
ZeroPad(n, width) ==
    IF width <= Len(ToStr(n)) THEN ToStr(n)
    ELSE <<"0">> \o ZeroPad(n, width - 1)

Offset == <<"+", "0", "0", ":", "0", "0">>

\* datetime.isoformat(): YYYY-MM-DDTHH:MM:SS, followed by +00:00 when the
\* datetime is aware
datetime_isoformat(dt) ==
    ZeroPad(dt.at[1], 4) \o <<"-">> \o ZeroPad(dt.at[2], 2) \o <<"-">> \o ZeroPad(dt.at[3], 2)
    \o <<"T">> \o ZeroPad(dt.at[4], 2) \o <<":">> \o ZeroPad(dt.at[5], 2) \o <<":">>
    \o ZeroPad(dt.at[6], 2) \o (IF dt.aware THEN Offset ELSE <<>>)

\* x.isoformat().replace("+00:00", "Z") if x else ""
Stamp(dt) ==
    IF dt.isNone THEN <<>> ELSE ReplaceText(datetime_isoformat(dt), Offset, <<"Z">>)

\* x.isoformat() + "Z" if x else ""
StampZ(dt) ==
    IF dt.isNone THEN <<>> ELSE datetime_isoformat(dt) \o <<"Z">>

\* transform_commit: the message is copied as it is
transform_commit(commit) ==
    [type |-> "commit",
     message |-> commit.message.text,
     message_first_line |-> FirstLine(commit.message.text),
     author_date |-> Stamp(commit.date)]

\* a resolution that prefers the head of the branch
resolve_sha_head_first(pull) ==
    IF ~pull.head.isNone THEN pull.head
    ELSE IF pull.merged THEN pull.merge_commit_sha ELSE Some(<<>>)

\* transform_pull_request:
\* sha = pr.merge_commit_sha if pr.merged else (pr.head.sha if pr.head else "")
resolve_sha(pull) ==
    IF pull.merged THEN pull.merge_commit_sha
    ELSE IF ~pull.head.isNone THEN pull.head ELSE Some(<<>>)

\* f"pr-{number}"
Placeholder(number) == <<"p", "r", "-">> \o ToStr(number)

\* short_sha = sha[:7] if sha else f"pr-{pr.number}"
resolve_short_sha(sha, number) ==
    IF ~sha.isNone /\ sha.text # <<>>
    THEN SubSeq(sha.text, 1, IF Len(sha.text) < 7 THEN Len(sha.text) ELSE 7)
    ELSE Placeholder(number)

\* transform_pull_request
transform_pull_request(pr) ==
    [type |-> "pull-request",
     number |-> pr.pull.number,
     sha |-> resolve_sha(pr.pull),
     short_sha |-> resolve_short_sha(resolve_sha(pr.pull), pr.pull.number),
     title |-> Sanitize(OrEmpty(pr.title)),
     created_at |-> Stamp(pr.date),
     merged |-> pr.pull.merged,
     draft |-> pr.pull.draft]

\* the degraded record search_user_pull_requests builds from the search hit
fallback_pull_request(issue) ==
    [type |-> "pull-request",
     number |-> issue.pull.number,
     sha |-> Some(<<>>),
     short_sha |-> Placeholder(issue.pull.number),
     title |-> Strip(Replace(Replace(issue.title.text, "\n", <<" ">>), "\r", <<" ">>)),
     created_at |-> StampZ(issue.date),
     merged |-> FALSE,
     draft |-> FALSE]

\* transform_code_review
transform_code_review(review, pr) ==
    [type |-> "code-review",
     pr_title |-> Sanitize(OrEmpty(pr.title)),
     review_body |-> Sanitize(OrEmpty(review.body)),
     submitted_at |-> Stamp(review.date),
     state |-> review.state,
     reviewer_name |-> OrEmpty(review.user),
     pr_number |-> pr.pull.number]

\* the free-text fields of a record, in the order of the CSV headers
FreeText(record) ==
    CASE record.type = "commit" -> <<record.message, record.message_first_line>>
      [] record.type = "pull-request" -> <<record.title>>
      [] record.type = "code-review" -> <<record.pr_title, record.review_body>>
      [] OTHER -> <<>>

\* the data row array_to_csv writes for a record (free-text columns)
ExportRow(record) ==
    LET texts == FreeText(record)
    IN  WriteRow([i \in 1..Len(texts) |-> escape_csv_field(texts[i])])

\* the objects of the API: a commit (its message), a pull request (its
\* title), a search hit (its title), a review (its body) with its pull
\* request (its title); the API gives a message and a hit's title always
\* the number and the commits of a pull request: is it merged, its merge
\* commit (GitHub gives one to a merged pull request, and may give a test
\* merge to an open one), the head of its branch if it has one
NoPull ==
    [number |-> 0, merged |-> FALSE, merge_commit_sha |-> None, head |-> None,
     draft |-> FALSE]

ApiObject(kind, message, title, body) ==
    [kind |-> kind, message |-> message, title |-> title, body |-> body, pull |-> NoPull,
     date |-> NoTime, user |-> None, state |-> ""]

WithPull(object, pull) == [object EXCEPT !.pull = pull]

\* the author and the state of a review
WithReview(object, user, state) == [object EXCEPT !.user = user, !.state = state]

\* the datetime of an object: the author date of a commit, the creation of
\* a pull request or of a search hit, the submission of a review
WithDate(object, date) == [object EXCEPT !.date = date]

ApiTimes == {NoTime} \cup {DateTime(<<2024, 2, 29, 9, 5, 59>>, aware) : aware \in BOOLEAN}

MergeSha == <<"d", "e", "a", "d", "b", "e", "e", "f", "0", "1">>
HeadSha == <<"f", "e", "e", "d", "f", "a", "c", "e">>
PullNumbers == {7, 42}

Pulls ==
    {p \in [number : PullNumbers, merged : BOOLEAN,
            merge_commit_sha : Nullable({MergeSha}), head : Nullable({HeadSha}),
            draft : BOOLEAN] :
        /\ p.merged => ~p.merge_commit_sha.isNone
        /\ p.merged => ~p.draft}

\* the search hit of a pull request has its number only
Hits == {[NoPull EXCEPT !.number = n] : n \in PullNumbers}

ApiObjects ==
    {WithDate(object, date) :
        object \in
            {ApiObject("commit", Some(m), None, None) : m \in ApiTexts}
            \cup {WithPull(ApiObject("pull", None, t, None), p) : t \in Nullable(ApiTexts), p \in Pulls}
            \cup {WithPull(ApiObject("issue", None, Some(t), None), h) : t \in ApiTexts, h \in Hits}
            \cup {ApiObject("review", None, t, b) : t \in Nullable(ApiTexts), b \in Nullable(ApiTexts)},
        date \in ApiTimes}

NoRecord == [type |-> "none"]

TrIdle ==
    /\ trApi = ApiObject("none", None, None, None)
    /\ trRecord = NoRecord
    /\ trRow = <<>>
    /\ trPc = "idle"

TrStart ==
    /\ trApi \in ApiObjects
    /\ trRecord = NoRecord
    /\ trRow = <<>>
    /\ trPc = "fetched"

\* fetch_commits: commits.append(transform_commit(commit, owner, repo))
TransformCommit ==
    /\ trPc = "fetched"
    /\ trApi.kind = "commit"
    /\ trRecord' = transform_commit(trApi)
    /\ trPc' = "transformed"
    /\ UNCHANGED <<trApi, trRow>>
    /\ UNCHANGED notTr

\* search_user_pull_requests: the detail fetch succeeded
TransformPullRequest ==
    /\ trPc = "fetched"
    /\ trApi.kind = "pull"
    /\ trRecord' = transform_pull_request(trApi)
    /\ trPc' = "transformed"
    /\ UNCHANGED <<trApi, trRow>>
    /\ UNCHANGED notTr

\* search_user_pull_requests: the detail fetch failed, fall back to the hit
FallbackPullRequest ==
    /\ trPc = "fetched"
    /\ trApi.kind = "issue"
    /\ trRecord' = fallback_pull_request(trApi)
    /\ trPc' = "transformed"
    /\ UNCHANGED <<trApi, trRow>>
    /\ UNCHANGED notTr

\* search_user_code_reviews: all_reviews.append(transform_code_review(review, full_pr))
TransformCodeReview ==
    /\ trPc = "fetched"
    /\ trApi.kind = "review"
    /\ trRecord' = transform_code_review(trApi, trApi)
    /\ trPc' = "transformed"
    /\ UNCHANGED <<trApi, trRow>>
    /\ UNCHANGED notTr

\* export_to_csv: the record's row of the CSV file
TransformExport ==
    /\ trPc = "transformed"
    /\ trRow' = ExportRow(trRecord)
    /\ trPc' = "exported"
    /\ UNCHANGED <<trApi, trRecord>>
    /\ UNCHANGED notTr

-----------------------------------------------------------------------------
(* services/import_service.py: CSV -> markdown files *)

Types == {"commits", "pullRequests", "codeReviews"}

H_author_date == <<"a", "u", "t", "h", "o", "r", "_", "d", "a", "t", "e">>
H_submitted_at == <<"s", "u", "b", "m", "i", "t", "t", "e", "d", "_", "a", "t">>
H_review_id == <<"r", "e", "v", "i", "e", "w", "_", "i", "d">>

\* the column of the timestamp and the column of the identifier of a type
\* (is_valid_*, get_file_name of import_*_from_csv)
DateField(type) == IF type = "codeReviews" THEN H_submitted_at ELSE H_author_date
IdField(type) == IF type = "codeReviews" THEN H_review_id ELSE H_short_sha

\* the columns of the CSV of a type the import reads
ImportHeaders(type) == <<DateField(type), IdField(type)>>

\* a validation that forgets the identifier
is_valid_item_date_only(type, item) == RowGet(item, DateField(type)) # <<>>

\* is_valid_commit, is_valid_pull_request, is_valid_code_review:
\* bool(item.get(date) and item.get(id))
is_valid_item(type, item) ==
    /\ RowGet(item, DateField(type)) # <<>>
    /\ RowGet(item, IdField(type)) # <<>>

\* a formatting that keeps the time of day only
format_date_for_filename_time_only(date_str) ==
    Replace(Replace(SubSeq(date_str, 12, Len(date_str)), ":", <<"-">>), "Z", <<>>)

\* format_date_for_filename: date_str.replace(":", "-").replace("Z", "")
format_date_for_filename(date_str) == Replace(Replace(date_str, ":", <<"-">>), "Z", <<>>)

DotMd == <<".", "m", "d">>

\* get_file_name: f"{format_date_for_filename(item[date])}-{item[id]}.md"
get_file_name(type, item) ==
    format_date_for_filename(item[DateField(type)]) \o <<"-">> \o item[IdField(type)] \o DotMd

FileNames(files) == {f.name : f \in files}

\* a loop that counts a row as imported whether or not it wrote its file
import_item_uncounted(type, item, acc) ==
    LET filename == get_file_name(type, item)
    IN  [acc EXCEPT !.files = @ \cup {[name |-> filename, content |-> item]},
                    !.imported = @ + 1]

\* a loop body that writes the file whether it exists or not
import_item_overwrite(type, item, acc) ==
    LET filename == get_file_name(type, item)
    IN  [acc EXCEPT !.files = {f \in @ : f.name # filename}
                                 \cup {[name |-> filename, content |-> item]},
                    !.imported = @ + 1]

\* the body of the per-row loop of import_items_from_csv: an existing file
\* is skipped, any other is written
import_item(type, item, acc) ==
    LET filename == get_file_name(type, item)
    IN  IF filename \in FileNames(acc.files)
        THEN [acc EXCEPT !.skipped = @ + 1]
        ELSE [acc EXCEPT !.files = @ \cup {[name |-> filename, content |-> item]},
                         !.imported = @ + 1]

\* the per-row loop of import_items_from_csv
RECURSIVE ImportLoop(_, _, _)
ImportLoop(type, items, acc) ==
    IF items = <<>> THEN acc
    ELSE ImportLoop(type, Tail(items), import_item(type, items[1], acc))

Stats(total, valid, discarded, imported, skipped) ==
    [total |-> total, valid |-> valid, discarded |-> discarded,
     imported |-> imported, skipped |-> skipped]

\* the existence check made after output_dir.mkdir
csv_not_found_after_mkdir(csv, dir, files) ==
    [raised |-> TRUE, stats |-> Stats(0, 0, 0, 0, 0),
     csv |-> csv, dir |-> TRUE, files |-> files]

\* import_items_from_csv, `if not csv_path.exists(): raise FileNotFoundError`:
\* the check comes before output_dir.mkdir
csv_not_found(csv, dir, files) ==
    [raised |-> TRUE, stats |-> Stats(0, 0, 0, 0, 0),
     csv |-> csv, dir |-> dir, files |-> files]

\* import_items_from_csv on the files of one type: the outcome (raised or
\* returned), the statistics returned, and the file system it leaves
\*   csv: [exists, text]   dir: BOOLEAN   files: the markdown files
import_items_from_csv(type, csv, dir, files) ==
    IF ~csv.exists
    THEN csv_not_found(csv, dir, files)
    ELSE LET parsed == parse_csv_file(csv.text)
             all_items == parsed.items
             items == SelectSeq(all_items, LAMBDA item : is_valid_item(type, item))
             discarded == Len(all_items) - Len(items)
             done == ImportLoop(type, items, [files |-> files, imported |-> 0, skipped |-> 0])
         IN  IF parsed.raised
             THEN [raised |-> TRUE, stats |-> Stats(0, 0, 0, 0, 0),
                   csv |-> csv, dir |-> TRUE, files |-> files]
             ELSE IF items = <<>>
             THEN [raised |-> FALSE, stats |-> Stats(0, 0, 0, 0, 0),
                   csv |-> csv, dir |-> TRUE, files |-> files]
             ELSE [raised |-> FALSE,
                   stats |-> Stats(Len(all_items), Len(items), discarded, done.imported, done.skipped),
                   csv |-> [exists |-> FALSE, text |-> <<>>], dir |-> TRUE, files |-> done.files]

\* timestamps and identifiers of the rows
TS1 == <<"2", "0", "2", "4", "-", "0", "3", "-", "0", "1", "T", "1", "2", ":", "0", "0", ":", "0", "0", "Z">>
TS2 == <<"2", "0", "2", "4", "-", "0", "3", "-", "0", "2", "T", "0", "8", ":", "3", "0", ":", "0", "0", "Z">>
Id1 == <<"a", "b", "c", "1", "2", "3", "4">>
Blank == <<" ">>

ImportRow(type, date, id) ==
    [k \in {DateField(type), IdField(type)} |-> IF k = DateField(type) THEN date ELSE id]

\* the rows of a CSV: two valid rows, a row of a blank timestamp, a row of
\* no identifier
ImportRows(type) ==
    {ImportRow(type, TS1, Id1), ImportRow(type, TS2, Id1),
     ImportRow(type, Blank, Id1), ImportRow(type, TS1, <<>>)}

Absent == [exists |-> FALSE, text |-> <<>>]
CsvFile(type, rows) == [exists |-> TRUE, text |-> array_to_csv(rows, ImportHeaders(type))]

\* the CSV of commits: absent, or a list of rows (none: the header alone);
\* the CSV of the other types: absent, one valid row, or one invalid row
ExportStates(type) ==
    {Absent} \cup
    IF type = "commits"
    THEN {CsvFile(type, rows) : rows \in SeqsUpTo(ImportRows(type), MaxRows)}
    ELSE {CsvFile(type, <<ImportRow(type, TS1, Id1)>>), CsvFile(type, <<ImportRow(type, Blank, Id1)>>)}

\* the markdown file an earlier import wrote for the first valid row
EarlierFile(type) ==
    [name |-> get_file_name(type, ImportRow(type, TS1, Id1)),
     content |-> ImportRow(type, TS1, Id1)]

NoStats == [ran |-> FALSE, stats |-> Stats(0, 0, 0, 0, 0)]

FsStart ==
    /\ \E c \in ExportStates("commits"), p \in ExportStates("pullRequests"),
          r \in ExportStates("codeReviews") :
          exports = [t \in Types |-> IF t = "commits" THEN c
                                     ELSE IF t = "pullRequests" THEN p ELSE r]
    /\ outDirs \in [Types -> BOOLEAN]
    /\ mdFiles = [t \in Types |-> IF outDirs[t] THEN {EarlierFile(t)} ELSE {}]

ImpIdle ==
    /\ exports = [t \in Types |-> Absent]
    /\ outDirs = [t \in Types |-> FALSE]
    /\ mdFiles = [t \in Types |-> {}]
    /\ impFlags = [t \in Types |-> FALSE]
    /\ impPc = "idle"
    /\ impResults = [t \in Types |-> NoStats]
    /\ impError = "none"
    /\ impRun = 0
    /\ impPrev = [exports |-> exports, files |-> mdFiles]

ImpStart ==
    /\ FsStart
    /\ impFlags \in [Types -> BOOLEAN]
    /\ impPc = "commits"
    /\ impResults = [t \in Types |-> NoStats]
    /\ impError = "none"
    /\ impRun = 1
    /\ impPrev = [exports |-> exports, files |-> mdFiles]

\* one `if import_<type>:` block of import_contributions
ImportStep(type, next) ==
    /\ impPc = type
    /\ IF ~impFlags[type]
       THEN /\ impPc' = next
            /\ UNCHANGED <<fsVars, impResults, impError>>
       ELSE LET r == import_items_from_csv(type, exports[type], outDirs[type], mdFiles[type])
            IN  /\ exports' = [exports EXCEPT ![type] = r.csv]
                /\ outDirs' = [outDirs EXCEPT ![type] = r.dir]
                /\ mdFiles' = [mdFiles EXCEPT ![type] = r.files]
                /\ IF r.raised
                   THEN /\ impPc' = "raised"
                        /\ impError' = type
                        /\ UNCHANGED impResults
                   ELSE /\ impPc' = next
                        /\ impResults' = [impResults EXCEPT ![type] = [ran |-> TRUE, stats |-> r.stats]]
                        /\ UNCHANGED impError
    /\ UNCHANGED <<impFlags, impRun, impPrev>>
    /\ UNCHANGED notImp

ImportCommits == ImportStep("commits", "pullRequests")
ImportPullRequests == ImportStep("pullRequests", "codeReviews")
ImportCodeReviews == ImportStep("codeReviews", "returned")

\* the import is run again after it returned: the fetch stage has exported
\* the same rows again, and import_contributions is called with the same
\* types
ImpAgain ==
    /\ impPc = "returned"
    /\ impRun < MaxRuns
    /\ impRun' = impRun + 1
    /\ impPrev' = [impPrev EXCEPT !.files = mdFiles]
    /\ exports' = impPrev.exports
    /\ impPc' = "commits"
    /\ impResults' = [t \in Types |-> NoStats]
    /\ UNCHANGED <<outDirs, mdFiles, impFlags, impError>>
    /\ UNCHANGED notImp

-----------------------------------------------------------------------------
(* services/git_commit_service.py: markdown files -> git history *)

\* f"{n:02d}"
Pad2(n) == IF n < 10 THEN <<"0">> \o ToStr(n) ELSE ToStr(n)

\* str.replace(old, new, count)
RECURSIVE ReplaceN(_, _, _, _)
ReplaceN(s, old, new, count) ==
    IF s = <<>> \/ count = 0 THEN s
    ELSE IF Head(s) = old THEN new \o ReplaceN(Tail(s), old, new, count - 1)
    ELSE <<Head(s)>> \o ReplaceN(Tail(s), old, new, count)

\* str.split(sep): the part before the first sep, and the rest
RECURSIVE Before(_, _)
Before(s, sep) == IF s = <<>> \/ Head(s) = sep THEN <<>> ELSE <<Head(s)>> \o Before(Tail(s), sep)
After(s, sep) == SubSeq(s, Len(Before(s, sep)) + 2, Len(s))

\* re.match(r"^(\d{4}-\d{2}-\d{2}T\d{2}-\d{2}-\d{2})-", filename)
PrefixLen == 19
MatchesPrefix(filename) ==
    /\ Len(filename) >= PrefixLen + 1
    /\ \A i \in 1..(PrefixLen + 1) :
          IF i \in {5, 8, 14, 17, 20} THEN filename[i] = "-"
          ELSE IF i = 11 THEN filename[i] = "T"
          ELSE filename[i] \in Digits

NoDate == [found |-> FALSE, text |-> <<>>]

\* parse_date_from_filename: the ISO 8601 text, or None
parse_date_from_filename(filename) ==
    IF ~MatchesPrefix(filename) THEN NoDate
    ELSE LET group == SubSeq(filename, 1, PrefixLen)
             date_str == ReplaceN(ReplaceN(group, "-", <<":">>, 3), ":", <<"-">>, 2)
             date_part == Before(date_str, "T")
             time_part == Replace(After(date_str, "T"), "-", <<":">>)
         IN  [found |-> TRUE, text |-> date_part \o <<"T">> \o time_part \o <<"Z">>]

IsLeap(y) == (y % 4 = 0 /\ y % 100 # 0) \/ y % 400 = 0
DaysIn(y, m) ==
    IF m = 2 THEN (IF IsLeap(y) THEN 29 ELSE 28)
    ELSE IF m \in {4, 6, 9, 11} THEN 30 ELSE 31

\* datetime.fromisoformat(iso.replace("Z", "+00:00")) on YYYY-MM-DDTHH:MM:SSZ:
\* the fields of the datetime, or ValueError
fromisoformat(iso) ==
    LET y == ToInt(SubSeq(iso, 1, 4))
        m == ToInt(SubSeq(iso, 6, 7))
        d == ToInt(SubSeq(iso, 9, 10))
        h == ToInt(SubSeq(iso, 12, 13))
        mi == ToInt(SubSeq(iso, 15, 16))
        sec == ToInt(SubSeq(iso, 18, 19))
        ok == /\ y >= 1 /\ m \in 1..12 /\ d >= 1 /\ d <= DaysIn(y, m)
              /\ h <= 23 /\ mi <= 59 /\ sec <= 59
    IN  [ok |-> ok, fields |-> <<y, m, d, h, mi, sec>>]

\* a formatting that does not pad the fields to two digits
format_date_for_git_unpadded(iso_date) ==
    LET f == fromisoformat(iso_date).fields
    IN  ToStr(f[1]) \o <<"-">> \o ToStr(f[2]) \o <<"-">> \o ToStr(f[3]) \o <<" ">>
        \o ToStr(f[4]) \o <<":">> \o ToStr(f[5]) \o <<":">> \o ToStr(f[6])
        \o <<" ", "+", "0", "0", "0", "0">>

\* format_date_for_git: "YYYY-MM-DD HH:MM:SS +0000", or the text itself when
\* it does not parse
format_date_for_git(iso_date) ==
    LET date == fromisoformat(iso_date)
        f == date.fields
    IN  IF ~date.ok THEN iso_date
        ELSE ToStr(f[1]) \o <<"-">> \o Pad2(f[2]) \o <<"-">> \o Pad2(f[3]) \o <<" ">>
             \o Pad2(f[4]) \o <<":">> \o Pad2(f[5]) \o <<":">> \o Pad2(f[6])
             \o <<" ", "+", "0", "0", "0", "0">>

README == <<"R", "E", "A", "D", "M", "E", ".", "m", "d">>

\* get_markdown_files: the *.md files of a directory but README.md
\* (every file of the model is a .md file)
get_markdown_files(type) ==
    IF ~outDirs[type] THEN {}
    ELSE {[type |-> type, name |-> f.name] : f \in {g \in mdFiles[type] : g.name # README}}

\* the order in which commit_contributions extends all_files
TypeRank(type) == IF type = "commits" THEN 1 ELSE IF type = "pullRequests" THEN 2 ELSE 3

\* get_date_key: an aware datetime for a parsed date, datetime.min (naive)
\* for None, ValueError for a date that is not a real one
get_date_key(file) ==
    LET date == parse_date_from_filename(file.name)
    IN  IF ~date.found THEN [kind |-> "naive", fields |-> <<1, 1, 1, 0, 0, 0>>]
        ELSE IF fromisoformat(date.text).ok
             THEN [kind |-> "aware", fields |-> fromisoformat(date.text).fields]
             ELSE [kind |-> "ValueError", fields |-> <<>>]

\* a < b for the fields of two datetimes
RECURSIVE FieldsLess(_, _)
FieldsLess(a, b) ==
    /\ a # <<>>
    /\ \/ Head(a) < Head(b)
       \/ Head(a) = Head(b) /\ FieldsLess(Tail(a), Tail(b))

\* all_files.sort(key=get_date_key) raises: a key that is no date, or, with
\* two files or more, a naive key compared with an aware one (TypeError)
SortRaises(files) ==
    \/ \E f \in files : get_date_key(f).kind = "ValueError"
    \/ \E f, g \in files : get_date_key(f).kind = "naive" /\ get_date_key(g).kind = "aware"

\* all_files left as collected: type after type, in any order inside a type
SortedFiles_unsorted(files) ==
    {q \in [1..Cardinality(files) -> files] :
        /\ \A i, j \in DOMAIN q : i # j => q[i] # q[j]
        /\ \A i, j \in DOMAIN q : i < j => TypeRank(q[i].type) <= TypeRank(q[j].type)}

\* the results of the stable sort, for every order in which the directories
\* can list their files: ascending keys; files of equal keys stay in the
\* order of all_files (commits, then pull requests, then reviews)
SortedFiles(files) ==
    {q \in [1..Cardinality(files) -> files] :
        /\ \A i, j \in DOMAIN q : i # j => q[i] # q[j]
        /\ \A i, j \in DOMAIN q : i < j =>
              /\ ~FieldsLess(get_date_key(q[j]).fields, get_date_key(q[i]).fields)
              /\ get_date_key(q[i]).fields = get_date_key(q[j]).fields =>
                    TypeRank(q[i].type) <= TypeRank(q[j].type)}

\* a git log that never finds the path
git_log_blind(path) == {}

\* git log --oneline -- path: the commits that touch the path
git_log(path) == {i \in 1..Len(gitLog) : path \in gitLog[i].files}

CommitMessagePrefix == <<"A", "d", "d", " ", "c", "o", "n", "t", "r", "i", "b", "u", "t", "i", "o", "n", ":", " ">>

\* git commit -m message with GIT_AUTHOR_DATE and GIT_COMMITTER_DATE: one
\* commit of everything staged
git_commit(index, message, date) ==
    [files |-> index, message |-> message, author_date |-> date, committer_date |-> date]

NoStatsCm == [committed |-> 0, skipped |-> 0, errors |-> 0]
NoPrev == [returned |-> FALSE, stats |-> NoStatsCm, total |-> 0]

\* the files of the contribution directories of the model
TS3 == <<"2", "0", "2", "4", "-", "0", "3", "-", "0", "1", "T", "1", "8", ":", "0", "0", ":", "0", "0", "Z">>
TSBad == <<"2", "0", "2", "4", "-", "1", "3", "-", "0", "1", "T", "1", "2", ":", "0", "0", ":", "0", "0", "Z">>
Notes == <<"n", "o", "t", "e", "s", ".", "m", "d">>
DatedName(ts) == format_date_for_filename(ts) \o <<"-">> \o Id1 \o DotMd

CandidateFiles ==
    {[type |-> "commits", name |-> DatedName(TS1)],
     [type |-> "commits", name |-> DatedName(TS2)],
     [type |-> "commits", name |-> Notes],
     [type |-> "commits", name |-> DatedName(TSBad)],
     [type |-> "pullRequests", name |-> DatedName(TS3)],
     [type |-> "pullRequests", name |-> README],
     [type |-> "codeReviews", name |-> DatedName(TS1)]}

CmIdle ==
    /\ gitIndex = {}
    /\ gitLog = <<>>
    /\ gitFailures = 0
    /\ cmTypes = [t \in Types |-> FALSE]
    /\ cmPc = "idle"
    /\ cmQueue = <<>>
    /\ cmPos = 0
    /\ cmStats = NoStatsCm
    /\ cmRun = 0
    /\ cmPrev = NoPrev

CmStart ==
    /\ \E files \in {fs \in SUBSET CandidateFiles : Cardinality(fs) <= MaxFiles} :
          /\ mdFiles = [t \in Types |-> {[name |-> f.name, content |-> <<>>] : f \in {g \in files : g.type = t}}]
          /\ outDirs = [t \in Types |-> \E g \in files : g.type = t]
    /\ exports = [t \in Types |-> Absent]
    /\ impFlags = [t \in Types |-> FALSE]
    /\ impPc = "idle"
    /\ impResults = [t \in Types |-> NoStats]
    /\ impError = "none"
    /\ impRun = 0
    /\ impPrev = [exports |-> exports, files |-> mdFiles]
    /\ gitIndex = {}
    /\ gitLog = <<>>
    /\ gitFailures = 0
    /\ cmTypes \in {ct \in [Types -> BOOLEAN] : \E t \in Types : ct[t]}
    /\ cmPc = "start"
    /\ cmQueue = <<>>
    /\ cmPos = 0
    /\ cmStats = NoStatsCm
    /\ cmRun = 0
    /\ cmPrev = NoPrev

\* the files commit_contributions collects
AllFiles == UNION {get_markdown_files(t) : t \in {u \in Types : cmTypes[u]}}

\* commit_contributions up to its loop: collect the files; none: return;
\* sort them
CmCollect ==
    /\ cmPc = "start"
    /\ cmRun' = cmRun + 1
    /\ cmStats' = NoStatsCm
    /\ IF AllFiles = {}
       THEN cmPc' = "returned" /\ cmQueue' = <<>> /\ cmPos' = 0
       ELSE IF SortRaises(AllFiles)
       THEN cmPc' = "raised" /\ cmQueue' = <<>> /\ cmPos' = 0
       ELSE cmPc' = "loop" /\ cmQueue' \in SortedFiles(AllFiles) /\ cmPos' = 1
    /\ UNCHANGED <<cmTypes, cmPrev>>
    /\ UNCHANGED gitVars
    /\ UNCHANGED notCm

CmFile == cmQueue[cmPos]
CmInLoop == cmPc = "loop" /\ cmPos <= Len(cmQueue)

\* the loop: `if not date:` skip the file
CmSkipInvalid ==
    /\ CmInLoop
    /\ ~parse_date_from_filename(CmFile.name).found
    /\ cmStats' = [cmStats EXCEPT !.skipped = @ + 1]
    /\ cmPos' = cmPos + 1
    /\ UNCHANGED <<cmTypes, cmPc, cmQueue, cmRun, cmPrev>>
    /\ UNCHANGED gitVars
    /\ UNCHANGED notCm

\* the loop: git log shows the file is committed, skip it
CmSkipCommitted ==
    /\ CmInLoop
    /\ parse_date_from_filename(CmFile.name).found
    /\ git_log(CmFile) # {}
    /\ cmStats' = [cmStats EXCEPT !.skipped = @ + 1]
    /\ cmPos' = cmPos + 1
    /\ UNCHANGED <<cmTypes, cmPc, cmQueue, cmRun, cmPrev>>
    /\ UNCHANGED gitVars
    /\ UNCHANGED notCm

CmToCommit ==
    /\ CmInLoop
    /\ parse_date_from_filename(CmFile.name).found
    /\ git_log(CmFile) = {}

\* the loop: commit_file succeeds (git add, then git commit)
CmCommit ==
    /\ CmToCommit
    /\ gitLog' = Append(gitLog,
                        git_commit(gitIndex \cup {CmFile}, CommitMessagePrefix \o CmFile.name,
                                   format_date_for_git(parse_date_from_filename(CmFile.name).text)))
    /\ gitIndex' = {}
    /\ cmStats' = [cmStats EXCEPT !.committed = @ + 1]
    /\ cmPos' = cmPos + 1
    /\ UNCHANGED <<gitFailures, cmTypes, cmPc, cmQueue, cmRun, cmPrev>>
    /\ UNCHANGED notCm

\* a loop that lets the exception of commit_file through
CmAddFails_uncaught ==
    /\ CmToCommit
    /\ gitFailures < MaxGitFailures
    /\ gitFailures' = gitFailures + 1
    /\ cmPc' = "raised"
    /\ UNCHANGED <<gitIndex, gitLog, cmTypes, cmQueue, cmPos, cmStats, cmRun, cmPrev>>
    /\ UNCHANGED notCm

\* the loop: git add exits non-zero, commit_file raises
CmAddFails ==
    /\ CmToCommit
    /\ gitFailures < MaxGitFailures
    /\ gitFailures' = gitFailures + 1
    /\ cmStats' = [cmStats EXCEPT !.errors = @ + 1]
    /\ cmPos' = cmPos + 1
    /\ UNCHANGED <<gitIndex, gitLog, cmTypes, cmPc, cmQueue, cmRun, cmPrev>>
    /\ UNCHANGED notCm

\* the loop: git add succeeds, git commit exits non-zero, commit_file
\* raises; the file stays staged
CmCommitFails ==
    /\ CmToCommit
    /\ gitFailures < MaxGitFailures
    /\ gitFailures' = gitFailures + 1
    /\ gitIndex' = gitIndex \cup {CmFile}
    /\ cmStats' = [cmStats EXCEPT !.errors = @ + 1]
    /\ cmPos' = cmPos + 1
    /\ UNCHANGED <<gitLog, cmTypes, cmPc, cmQueue, cmRun, cmPrev>>
    /\ UNCHANGED notCm

\* the loop is over: the summary, and the return of the statistics
CmReturn ==
    /\ cmPc = "loop"
    /\ cmPos > Len(cmQueue)
    /\ cmPc' = "returned"
    /\ UNCHANGED <<cmTypes, cmQueue, cmPos, cmStats, cmRun, cmPrev>>
    /\ UNCHANGED gitVars
    /\ UNCHANGED notCm

\* commit_contributions is run again, on the same files and types
CmAgain ==
    /\ cmPc \in {"returned", "raised"}
    /\ cmRun < MaxRuns
    /\ cmPrev' = [returned |-> cmPc = "returned", stats |-> cmStats, total |-> Len(cmQueue)]
    /\ cmPc' = "start"
    /\ cmQueue' = <<>>
    /\ cmPos' = 0
    /\ cmStats' = NoStatsCm
    /\ UNCHANGED <<cmTypes, cmRun>>
    /\ UNCHANGED gitVars
    /\ UNCHANGED notCm

-----------------------------------------------------------------------------
(* utils/date_utils.py, utils/validation_utils.py, cli_components/args.py,  *)
(* cli_components/import_args.py: the arguments of the command line         *)

Uppers == <<"A", "B", "C", "D", "E", "F", "G", "H", "I", "J", "K", "L", "M", "N", "O", "P", "Q", "R", "S", "T", "U", "V", "W", "X", "Y", "Z">>
Lowers == <<"a", "b", "c", "d", "e", "f", "g", "h", "i", "j", "k", "l", "m", "n", "o", "p", "q", "r", "s", "t", "u", "v", "w", "x", "y", "z">>

\* str.lower()
LowerChar(c) ==
    IF \E k \in 1..Len(Uppers) : Uppers[k] = c
    THEN Lowers[CHOOSE k \in 1..Len(Uppers) : Uppers[k] = c]
    ELSE c
LowerText(s) == [i \in 1..Len(s) |-> LowerChar(s[i])]

\* str.split(sep)
RECURSIVE Split(_, _)
Split(s, sep) ==
    IF ~Contains(s, sep) THEN <<s>>
    ELSE <<Before(s, sep)>> \o Split(After(s, sep), sep)

\* x in list
InList(list, x) == \E i \in 1..Len(list) : list[i] = x

\* [t.strip() for t in text.split(",")]
StripAll(text) == LET parts == Split(text, ",") IN [i \in 1..Len(parts) |-> Strip(parts[i])]

\* re.match(r"^\d{4}-\d{2}-\d{2}T\d{2}:\d{2}:\d{2}Z$", date_str)
MatchesDate(date_str) ==
    /\ Len(date_str) = 20
    /\ \A i \in 1..20 :
          IF i \in {5, 8} THEN date_str[i] = "-"
          ELSE IF i = 11 THEN date_str[i] = "T"
          ELSE IF i \in {14, 17} THEN date_str[i] = ":"
          ELSE IF i = 20 THEN date_str[i] = "Z"
          ELSE date_str[i] \in Digits

\* validate_date: None for an empty text, ValueError for a text that is not
\* YYYY-MM-DDTHH:MM:SSZ or not a real date, the text otherwise
validate_date(date_str) ==
    IF date_str = <<>> THEN [raised |-> FALSE, value |-> None]
    ELSE IF ~MatchesDate(date_str) THEN [raised |-> TRUE, value |-> None]
    ELSE IF ~fromisoformat(date_str).ok THEN [raised |-> TRUE, value |-> None]
    ELSE [raised |-> FALSE, value |-> Some(date_str)]

\* valid_values of validate_affiliation
ValidAffiliations == {<<"o", "w", "n", "e", "r">>, <<"c", "o", "l", "l", "a", "b", "o", "r", "a", "t", "o", "r">>, <<"o", "r", "g", "a", "n", "i", "z", "a", "t", "i", "o", "n", "_", "m", "e", "m", "b", "e", "r">>}

\* validate_affiliation: ValueError when a value of the list is not valid
validate_affiliation(affiliation_str) ==
    LET affiliations == StripAll(affiliation_str)
    IN  IF affiliation_str = <<>> THEN [raised |-> FALSE, value |-> None]
        ELSE IF \E i \in 1..Len(affiliations) : affiliations[i] \notin ValidAffiliations
        THEN [raised |-> TRUE, value |-> None]
        ELSE [raised |-> FALSE, value |-> Some(Join(affiliations, <<",">>))]

\* the names of the types on the command line
CommitsNames == {<<"c", "o", "m", "m", "i", "t", "s">>, <<"c", "o", "m", "m", "i", "t">>}
PullRequestsNames == {<<"p", "r", "s">>, <<"p", "r">>, <<"p", "u", "l", "l", "r", "e", "q", "u", "e", "s", "t", "s">>}
CodeReviewsNames == {<<"r", "e", "v", "i", "e", "w", "s">>, <<"r", "e", "v", "i", "e", "w">>, <<"c", "o", "d", "e", "r", "e", "v", "i", "e", "w", "s">>}
All == <<"a", "l", "l">>
Both == <<"b", "o", "t", "h">>

\* the flags of the types, from three booleans
Flags(commits, prs, reviews) ==
    [t \in Types |-> IF t = "commits" THEN commits
                     ELSE IF t = "pullRequests" THEN prs ELSE reviews]
NoFlags == Flags(FALSE, FALSE, FALSE)

\* "commits" in types or "commit" in types, and so on
Named(types, names) == \E i \in 1..Len(types) : types[i] \in names

\* sys.argv[k] of the arguments after the operation, "" when there is none
\* (an empty argument and no argument are both false)
ArgAt(args_list, k) == IF Len(args_list) >= k THEN args_list[k] ELSE <<>>

\* a parse that sets flags without resetting the default first
parse_args_keep_default(args_list) ==
    LET date_arg == ArgAt(args_list, 1)
        affiliation_arg == ArgAt(args_list, 2)
        types_arg == ArgAt(args_list, 3)
        since_date == validate_date(date_arg)
        affiliation == validate_affiliation(affiliation_arg)
        normalized == LowerText(types_arg)
        types == StripAll(normalized)
        named == Flags(TRUE, Named(types, PullRequestsNames),
                       Named(types, CodeReviewsNames))
        fetch == IF types_arg = <<>> THEN Flags(TRUE, FALSE, FALSE)
                 ELSE IF normalized = All \/ InList(types, All) THEN Flags(TRUE, TRUE, TRUE)
                 ELSE IF normalized = Both THEN Flags(TRUE, TRUE, FALSE)
                 ELSE named
        exit == \/ since_date.raised
                \/ affiliation.raised
                \/ fetch = NoFlags
    IN  [exit |-> exit,
         sinceDate |-> since_date.value,
         affiliation |-> affiliation.value,
         flags |-> IF exit THEN NoFlags ELSE fetch,
         hasArgs |-> date_arg # <<>> \/ affiliation_arg # <<>> \/ types_arg # <<>>]

\* parse_args: sys.exit(1) on a bad date, affiliation or type; otherwise the
\* date, the affiliation and the flags of the types to fetch
parse_args(args_list) ==
    LET date_arg == ArgAt(args_list, 1)
        affiliation_arg == ArgAt(args_list, 2)
        types_arg == ArgAt(args_list, 3)
        since_date == validate_date(date_arg)
        affiliation == validate_affiliation(affiliation_arg)
        normalized == LowerText(types_arg)
        types == StripAll(normalized)
        named == Flags(Named(types, CommitsNames), Named(types, PullRequestsNames),
                       Named(types, CodeReviewsNames))
        fetch == IF types_arg = <<>> THEN Flags(TRUE, FALSE, FALSE)
                 ELSE IF normalized = All \/ InList(types, All) THEN Flags(TRUE, TRUE, TRUE)
                 ELSE IF normalized = Both THEN Flags(TRUE, TRUE, FALSE)
                 ELSE named
        exit == \/ since_date.raised
                \/ affiliation.raised
                \/ fetch = NoFlags
    IN  [exit |-> exit,
         sinceDate |-> since_date.value,
         affiliation |-> affiliation.value,
         flags |-> IF exit THEN NoFlags ELSE fetch,
         hasArgs |-> date_arg # <<>> \/ affiliation_arg # <<>> \/ types_arg # <<>>]

\* parse_import_args: sys.exit(1) when exports/ has no CSV, when a type
\* named has no CSV, when no type is named; otherwise the flags of the types
\* to import. has: which CSV files exist
parse_import_args(args_list, has) ==
    LET types_arg == ArgAt(args_list, 1)
        normalized == LowerText(types_arg)
        types == StripAll(normalized)
        named == Flags(Named(types, CommitsNames), Named(types, PullRequestsNames),
                       Named(types, CodeReviewsNames))
        import == IF types_arg = <<>> \/ normalized = All THEN has
                  ELSE IF normalized = Both THEN Flags(has["commits"], has["pullRequests"], FALSE)
                  ELSE named
        exit == \/ has = NoFlags
                \/ /\ types_arg # <<>> /\ normalized # All /\ normalized # Both
                   /\ \/ \E t \in Types : named[t] /\ ~has[t]
                      \/ named = NoFlags
    IN  [exit |-> exit,
         flags |-> IF exit THEN NoFlags ELSE import,
         hasArgs |-> types_arg # <<>>]


-----------------------------------------------------------------------------
(* cli.py: main *)

\* valid_operations
ValidOperations == {"fetch", "import", "commit", "both", "full"}

\* the first argument of the command line: none, an operation, an operation
\* in capitals, or something else
Arguments == {"", "fetch", "import", "commit", "both", "full", "FULL", "Both", "sync"}

\* operation.lower()
Lower(arg) == IF arg = "FULL" THEN "full" ELSE IF arg = "Both" THEN "both" ELSE arg

\* a validation that looks at the token only
validate_environment_token_only(env) == env.token

\* validate_environment: both variables are set
validate_environment(env) == env.token /\ env.username

CliIdle ==
    /\ cliArgv = ""
    /\ cliEnv = [token |-> FALSE, username |-> FALSE]
    /\ cliOp = ""
    /\ cliPc = "idle"
    /\ cliTrace = <<>>
    /\ cliExit = -1
    /\ cliComplete = FALSE
    /\ cliArgs = <<>>
    /\ cliCsv = NoFlags
    /\ cliWork = <<>>
    /\ cliSuccess = <<>>

\* the arguments after the operation: dates, affiliations and types, well
\* formed or not, empty or not
Date1 == <<"2", "0", "2", "4", "-", "0", "1", "-", "0", "1", "T", "0", "0", ":", "0", "0", ":", "0", "0", "Z">>
DateArgs == {Date1, <<"2", "0", "2", "4", "-", "1", "3", "-", "0", "1", "T", "0", "0", ":", "0", "0", ":", "0", "0", "Z">>, <<"2", "0", "2", "4", "-", "0", "1", "-", "0", "1">>, <<>>}
AffiliationArgs == {<<"o", "w", "n", "e", "r">>, <<"o", "w", "n", "e", "r", ",", " ", "c", "o", "l", "l", "a", "b", "o", "r", "a", "t", "o", "r">>, <<"a", "d", "m", "i", "n">>, <<>>}
TypesArgs ==
    {<<"c", "o", "m", "m", "i", "t", "s">>, <<"p", "r", "s">>, <<"p", "r", ",", "r", "e", "v", "i", "e", "w", "s">>, <<"a", "l", "l">>, <<"b", "o", "t", "h">>, <<"b", "o", "g", "u", "s">>, <<"c", "o", "m", "m", "i", "t", "s", ",", "b", "o", "g", "u", "s">>, <<"C", "o", "m", "m", "i", "t", "s">>, <<"a", "l", "l", ",", "b", "o", "g", "u", "s">>, <<"c", "o", "m", "m", "i", "t", "s", ",", " ", "p", "r", "s">>, <<>>}

ArgLists ==
    {<<>>}
    \cup {<<x>> : x \in DateArgs \cup TypesArgs}
    \cup {<<d, a>> : d \in DateArgs, a \in AffiliationArgs}
    \cup {<<d, a, t>> : d \in {Date1, <<>>}, a \in {<<"o", "w", "n", "e", "r">>, <<>>}, t \in TypesArgs}

CliStart ==
    /\ cliArgv \in Arguments
    /\ cliEnv \in [token : BOOLEAN, username : BOOLEAN]
    /\ cliOp = ""
    /\ cliPc = "main"
    /\ cliTrace = <<>>
    /\ cliExit = -1
    /\ cliComplete = FALSE
    /\ cliArgs \in IF cliArgv = "" THEN {<<>>} ELSE ArgLists
    /\ cliCsv \in [Types -> BOOLEAN]
    /\ cliWork = <<>>
    /\ cliSuccess = <<>>

\* the selections of a checkbox prompt over the types offered: one at least
Selections(offered) == {f \in [Types -> BOOLEAN] : f # NoFlags /\ \A t \in Types : f[t] => offered[t]}

\* a stage goes to work on the types of the flags, and writes or deletes the
\* CSV files of some of them
Work(stage, flags, csv) == [stage |-> stage, flags |-> flags, csv |-> csv]

CliExit1 ==
    /\ cliPc' = "exited"
    /\ cliExit' = 1

\* a main that goes on to the next stage whatever the stage returned
ExitUnless_ignored(success, next) ==
    /\ cliPc' = next
    /\ UNCHANGED cliExit

\* `if not success: sys.exit(1)`
ExitUnless(success, next) ==
    IF success THEN cliPc' = next /\ UNCHANGED cliExit ELSE CliExit1

\* the stage returned True or False to main
Returned(success, next) ==
    /\ cliSuccess' = Append(cliSuccess, IF success THEN "success" ELSE "failure")
    /\ ExitUnless(success, next)

\* the stage raised an exception it does not catch, or called sys.exit(1):
\* the process exits with 1
Raised ==
    /\ cliSuccess' = Append(cliSuccess, "raised")
    /\ CliExit1

\* main, up to `success = True`: the operation comes from the command line
\* (an invalid one exits with 1) or from prompt_operation (which may be
\* cancelled)
CliMain ==
    /\ cliPc = "main"
    /\ IF cliArgv = ""
       THEN \/ \E choice \in ValidOperations :
                  cliOp' = choice /\ cliPc' = "fetch" /\ UNCHANGED cliExit
            \/ CliExit1 /\ UNCHANGED cliOp
       ELSE IF Lower(cliArgv) \notin ValidOperations
       THEN CliExit1 /\ UNCHANGED cliOp
       ELSE cliOp' = Lower(cliArgv) /\ cliPc' = "fetch" /\ UNCHANGED cliExit
    /\ UNCHANGED <<cliArgs, cliCsv, cliWork, cliSuccess, cliArgv, cliEnv, cliTrace, cliComplete>>
    /\ UNCHANGED notCli

\* `if operation == "fetch" or operation == "both":` success = handle_fetch()
\* handle_fetch: validate_environment, parse_args (which may exit),
\* prompt_user when there is no argument (which may be cancelled),
\* process_repositories (which may fail), export_to_csv (which writes the
\* CSV of the types that have records)
CliFetch ==
    /\ cliPc = "fetch"
    /\ cliOp = "fetch" \/ cliOp = "both"
    /\ cliTrace' = Append(cliTrace, "fetch")
    /\ LET args == parse_args(cliArgs)
       IN  IF ~validate_environment(cliEnv)
           THEN Returned(FALSE, "import") /\ UNCHANGED <<cliCsv, cliWork>>
           ELSE IF args.exit
           THEN Raised /\ UNCHANGED <<cliCsv, cliWork>>
           ELSE \/ ~args.hasArgs /\ Returned(FALSE, "import") /\ UNCHANGED <<cliCsv, cliWork>>
                \/ \E flags \in IF args.hasArgs THEN {args.flags}
                                 ELSE Selections(Flags(TRUE, TRUE, TRUE)) :
                      \E written \in SUBSET {t \in Types : flags[t]} :
                         /\ cliWork' = Append(cliWork, Work("fetch", flags, written))
                         /\ cliCsv' = [t \in Types |-> cliCsv[t] \/ t \in written]
                         /\ \/ Returned(TRUE, "import")
                            \/ written = {} /\ Raised
    /\ UNCHANGED <<cliArgs, cliArgv, cliEnv, cliOp, cliComplete>>
    /\ UNCHANGED notCli

CliNoFetch ==
    /\ cliPc = "fetch"
    /\ ~(cliOp = "fetch" \/ cliOp = "both")
    /\ cliPc' = "import"
    /\ UNCHANGED <<cliArgs, cliCsv, cliWork, cliSuccess, cliArgv, cliEnv, cliOp, cliTrace, cliExit, cliComplete>>
    /\ UNCHANGED notCli

\* `if operation == "import" or operation == "both" or operation == "full":`
\* success = handle_import()
\* handle_import: parse_import_args (whose exit is caught), with no argument
\* prompt_import_options (which asks when two CSV files or more exist, and
\* may be cancelled), import_contributions (which may raise, and deletes
\* the CSV files it imported rows from)
CliImport ==
    /\ cliPc = "import"
    /\ cliOp = "import" \/ cliOp = "both" \/ cliOp = "full"
    /\ cliTrace' = Append(cliTrace, "import")
    /\ LET args == parse_import_args(cliArgs, cliCsv)
           asks == ~args.hasArgs /\ Cardinality({t \in Types : cliCsv[t]}) > 1
       IN  IF args.exit
           THEN Returned(FALSE, "commit") /\ UNCHANGED <<cliCsv, cliWork>>
           ELSE \/ asks /\ Returned(FALSE, "commit") /\ UNCHANGED <<cliCsv, cliWork>>
                \/ \E flags \in IF asks THEN Selections(cliCsv) ELSE {args.flags} :
                      \E deleted \in SUBSET {t \in Types : flags[t]} :
                         /\ cliWork' = Append(cliWork, Work("import", flags, deleted))
                         /\ cliCsv' = [t \in Types |-> cliCsv[t] /\ t \notin deleted]
                         /\ \E success \in BOOLEAN : Returned(success, "commit")
    /\ UNCHANGED <<cliArgs, cliArgv, cliEnv, cliOp, cliComplete>>
    /\ UNCHANGED notCli

CliNoImport ==
    /\ cliPc = "import"
    /\ ~(cliOp = "import" \/ cliOp = "both" \/ cliOp = "full")
    /\ cliPc' = "commit"
    /\ UNCHANGED <<cliArgs, cliCsv, cliWork, cliSuccess, cliArgv, cliEnv, cliOp, cliTrace, cliExit, cliComplete>>
    /\ UNCHANGED notCli

\* `if operation == "commit" or operation == "full":` success = handle_commit()
CliCommit ==
    /\ cliPc = "commit"
    /\ cliOp = "commit" \/ cliOp = "full"
    /\ cliTrace' = Append(cliTrace, "commit")
    /\ \E success \in BOOLEAN : Returned(success, "end")
    /\ UNCHANGED <<cliArgs, cliCsv, cliWork, cliArgv, cliEnv, cliOp, cliComplete>>
    /\ UNCHANGED notCli

CliNoCommit ==
    /\ cliPc = "commit"
    /\ ~(cliOp = "commit" \/ cliOp = "full")
    /\ cliPc' = "end"
    /\ UNCHANGED <<cliArgs, cliCsv, cliWork, cliSuccess, cliArgv, cliEnv, cliOp, cliTrace, cliExit, cliComplete>>
    /\ UNCHANGED notCli

\* `if (operation == "both" or operation == "full") and success:` the
\* message; main returns and the process exits with 0
CliEnd ==
    /\ cliPc = "end"
    /\ cliComplete' = (cliOp = "both" \/ cliOp = "full")
    /\ cliPc' = "exited"
    /\ cliExit' = 0
    /\ UNCHANGED <<cliArgs, cliCsv, cliWork, cliSuccess, cliArgv, cliEnv, cliOp, cliTrace>>
    /\ UNCHANGED notCli

-----------------------------------------------------------------------------
(* File names: from the timestamp of a record to the date of its commit *)

\* f"{n:04d}"
Pad4(n) ==
    IF n < 10 THEN <<"0", "0", "0">> \o ToStr(n)
    ELSE IF n < 100 THEN <<"0", "0">> \o ToStr(n)
    ELSE IF n < 1000 THEN <<"0">> \o ToStr(n)
    ELSE ToStr(n)

\* date.isoformat().replace("+00:00", "Z") of a UTC datetime of whole
\* seconds: YYYY-MM-DDTHH:MM:SSZ
isoformat(f) ==
    Pad4(f[1]) \o <<"-">> \o Pad2(f[2]) \o <<"-">> \o Pad2(f[3]) \o <<"T">>
    \o Pad2(f[4]) \o <<":">> \o Pad2(f[5]) \o <<":">> \o Pad2(f[6]) \o <<"Z">>

\* the dates and the times of day of the records, and their identifiers
RecordDates == {<<1970, 1, 1>>, <<1999, 12, 31>>, <<2024, 2, 29>>, <<2024, 10, 9>>}
RecordTimes == {<<0, 0, 0>>, <<9, 5, 59>>, <<23, 59, 59>>}
RecordIds == {Id1, <<"p", "r", "-", "7">>, <<"1", "2">>}

\* the rows of the CSV, as parse_csv_file returns them
NamedItems ==
    {[type |-> t, row |-> ImportRow(t, isoformat(d \o h), id)] :
        t \in {"commits", "codeReviews"}, d \in RecordDates, h \in RecordTimes,
        id \in RecordIds}

NoTexts == <<<<>>, <<>>>>

NmIdle ==
    /\ nmItems = <<>>
    /\ nmNames = NoTexts
    /\ nmIso = <<NoDate, NoDate>>
    /\ nmGit = NoTexts
    /\ nmPc = "idle"

NmStart ==
    /\ nmItems \in [1..2 -> NamedItems]
    /\ nmNames = NoTexts
    /\ nmIso = <<NoDate, NoDate>>
    /\ nmGit = NoTexts
    /\ nmPc = "records"

\* import_items_from_csv: filename = get_file_name(item)
NmName ==
    /\ nmPc = "records"
    /\ \A i \in 1..2 : is_valid_item(nmItems[i].type, nmItems[i].row)
    /\ nmNames' = [i \in 1..2 |-> get_file_name(nmItems[i].type, nmItems[i].row)]
    /\ nmPc' = "named"
    /\ UNCHANGED <<nmItems, nmIso, nmGit>>
    /\ UNCHANGED notNm

\* commit_contributions: date = parse_date_from_filename(file_path.name)
NmParse ==
    /\ nmPc = "named"
    /\ nmIso' = [i \in 1..2 |-> parse_date_from_filename(nmNames[i])]
    /\ nmPc' = "parsed"
    /\ UNCHANGED <<nmItems, nmNames, nmGit>>
    /\ UNCHANGED notNm

\* commit_file: git_date = format_date_for_git(date)
NmGitDate ==
    /\ nmPc = "parsed"
    /\ \A i \in 1..2 : nmIso[i].found
    /\ nmGit' = [i \in 1..2 |-> format_date_for_git(nmIso[i].text)]
    /\ nmPc' = "dated"
    /\ UNCHANGED <<nmItems, nmNames, nmIso>>
    /\ UNCHANGED notNm

-----------------------------------------------------------------------------
(* api/repositories.py, api/commits.py, api/pull_requests.py,              *)
(* api/code_reviews.py, services/fetch_service.py: the fetch stage          *)

\* GITHUB_USERNAME, and the login of somebody else
Me == <<"m", "e">>
Other == <<"y", "o", "u">>

\* the since-date of the command line, the instant it names, and one second
\* before it
SinceDate == <<"2", "0", "2", "4", "-", "0", "2", "-", "0", "1", "T", "0", "0", ":", "0", "0", ":", "0", "0", "Z">>
AtSince == <<2024, 2, 1, 0, 0, 0>>
Early == <<2024, 1, 31, 23, 59, 59>>

\* since = datetime.fromisoformat(since_date.replace("Z", "+00:00")): aware
SinceTime(since_date) == DateTime(fromisoformat(since_date.text).fields, TRUE)

\* an answer of the remote API to a request: the request raises, or gives
\* a list of items
Answer(kind, raises, items) == [kind |-> kind, raises |-> raises, items |-> items]
NoAnswer == Answer("none", FALSE, <<>>)

\* the records collected so far, the statistics, and whether an exception
\* is on its way
NoOut ==
    [commits |-> <<>>, pullRequests |-> <<>>, codeReviews |-> <<>>,
     totalReposProcessed |-> 0, reposWithCommits |-> 0]

\* fetch_commits: the commits of one repository; an exception is printed and
\* the repository gives no commit
fetch_commits(repo) ==
    IF repo.raises
    THEN [commits |-> <<>>, log |-> <<"Error fetching commits">>]
    ELSE [commits |-> [i \in 1..Len(repo.commits) |-> transform_commit(repo.commits[i])],
          log |-> <<>>]

\* process_repositories, one pass of `for i, repo in enumerate(repos, 1):`
process_repo(repo, acc) ==
    LET r == fetch_commits(repo)
    IN  [out |-> [acc.out EXCEPT !.commits = @ \o r.commits,
                                 !.reposWithCommits = @ + (IF r.commits # <<>> THEN 1 ELSE 0),
                                 !.totalReposProcessed = @ + 1],
         log |-> acc.log \o r.log]

RECURSIVE ReposLoop(_, _)
ReposLoop(repos, acc) ==
    IF repos = <<>> THEN acc ELSE ReposLoop(Tail(repos), process_repo(Head(repos), acc))

\* what a search collects: the list, the lines printed, and whether an
\* exception left the loop
Collected(list, log, raised) == [list |-> list, log |-> log, raised |-> raised]

\* a search that leaves out the hit whose details it could not fetch
pull_request_hit_dropped(hit, acc) ==
    IF ~hit.pull_request THEN acc
    ELSE IF ~hit.url_ok
    THEN [acc EXCEPT !.log = Append(@, "Could not parse PR URL")]
    ELSE IF hit.details = "fails"
    THEN [acc EXCEPT !.log = Append(@, "Could not fetch details")]
    ELSE IF hit.raises THEN [acc EXCEPT !.raised = TRUE]
    ELSE [acc EXCEPT !.list = Append(@, transform_pull_request(hit.full_pr))]

\* search_user_pull_requests, one pass of `for issue in search_results:`
pull_request_hit(hit, acc) ==
    IF ~hit.pull_request THEN acc
    ELSE IF ~hit.url_ok
    THEN [acc EXCEPT !.log = Append(@, "Could not parse PR URL")]
    ELSE IF hit.details = "fails"
    THEN [acc EXCEPT !.list = Append(@, fallback_pull_request(hit.issue)),
                     !.log = Append(@, "Could not fetch details")]
    ELSE IF hit.raises THEN [acc EXCEPT !.raised = TRUE]
    ELSE [acc EXCEPT !.list = Append(@, transform_pull_request(hit.full_pr))]

RECURSIVE PullRequestsLoop(_, _)
PullRequestsLoop(hits, acc) ==
    IF hits = <<>> \/ acc.raised THEN acc
    ELSE PullRequestsLoop(Tail(hits), pull_request_hit(Head(hits), acc))

\* search_user_pull_requests: the outer `except Exception` prints the error
\* and returns []
search_user_pull_requests(answer) ==
    LET r == PullRequestsLoop(answer.items, Collected(<<>>, <<>>, FALSE))
    IN  IF answer.raises THEN Collected(<<>>, <<"Error searching PRs">>, TRUE)
        ELSE IF r.raised THEN Collected(<<>>, Append(r.log, "Error searching PRs"), TRUE)
        ELSE r

\* fetch_pull_request_reviews: list(pr.get_reviews()), [] on an exception
fetch_pull_request_reviews(hit) ==
    IF hit.reviews_fail
    THEN [reviews |-> <<>>, log |-> <<"Could not fetch reviews">>]
    ELSE [reviews |-> hit.reviews, log |-> <<>>]

\* a filter that keeps the dismissed reviews
user_reviews_any_state(reviews, username) ==
    SelectSeq(reviews, LAMBDA review : ~review.user.isNone /\ review.user.text = username)

\* `if review.user and review.user.login == username and review.state != "DISMISSED"`
user_reviews(reviews, username) ==
    SelectSeq(reviews, LAMBDA review :
        ~review.user.isNone /\ review.user.text = username /\ review.state # "DISMISSED")

\* `review.submitted_at >= since` raises TypeError when one datetime is naive
\* and the other aware
CompareRaises(reviews, since) ==
    \E i \in 1..Len(reviews) : ~reviews[i].date.isNone /\ reviews[i].date.aware # since.aware

\* `if review.submitted_at and review.submitted_at >= since`
since_reviews(reviews, since) ==
    SelectSeq(reviews, LAMBDA review :
        ~review.date.isNone /\ ~FieldsLess(review.date.at, since.at))

\* search_user_code_reviews, one pass of `for issue in search_results:`
code_review_hit(hit, username, since_date, acc) ==
    IF ~hit.pull_request THEN acc
    ELSE IF ~hit.url_ok
    THEN [acc EXCEPT !.log = Append(@, "Could not parse PR URL")]
    ELSE IF hit.details = "fails"
    THEN [acc EXCEPT !.log = Append(@, "Could not fetch details")]
    ELSE LET fetched == fetch_pull_request_reviews(hit)
             mine == user_reviews(fetched.reviews, username)
             kept == IF since_date.isNone THEN mine
                     ELSE since_reviews(mine, SinceTime(since_date))
         IN  IF \/ ~since_date.isNone /\ CompareRaises(mine, SinceTime(since_date))
                \/ kept # <<>> /\ hit.raises
             THEN [acc EXCEPT !.log = @ \o fetched.log, !.raised = TRUE]
             ELSE [acc EXCEPT !.log = @ \o fetched.log,
                              !.list = @ \o [i \in 1..Len(kept) |->
                                                transform_code_review(kept[i], hit.full_pr)]]

RECURSIVE CodeReviewsLoop(_, _, _, _)
CodeReviewsLoop(hits, username, since_date, acc) ==
    IF hits = <<>> \/ acc.raised THEN acc
    ELSE CodeReviewsLoop(Tail(hits), username, since_date,
                         code_review_hit(Head(hits), username, since_date, acc))

\* search_user_code_reviews: the outer `except Exception` prints the error
\* and returns []
search_user_code_reviews(answer, username, since_date) ==
    LET r == CodeReviewsLoop(answer.items, username, since_date, Collected(<<>>, <<>>, FALSE))
    IN  IF answer.raises THEN Collected(<<>>, <<"Error searching code reviews">>, TRUE)
        ELSE IF r.raised
        THEN Collected(<<>>, Append(r.log, "Error searching code reviews"), TRUE)
        ELSE r

\* process_repositories, block by block: what a block makes of the answer
\* of the remote API
after_commits(out, answer) == ReposLoop(answer.items, [out |-> out, log |-> <<>>])

after_pull_requests(out, answer) ==
    LET r == search_user_pull_requests(answer)
    IN  [out |-> [out EXCEPT !.pullRequests = @ \o r.list], log |-> r.log]

after_code_reviews(out, answer, since_date) ==
    LET r == search_user_code_reviews(answer, Me, since_date)
    IN  [out |-> [out EXCEPT !.codeReviews = @ \o r.list], log |-> r.log]

\* display_fetch_summary: the lines of counts it prints, in order
display_fetch_summary(out, flags) ==
    <<<<"Repositories processed", out.totalReposProcessed>>>>
    \o (IF flags["commits"]
        THEN <<<<"Repositories with commits", out.reposWithCommits>>,
               <<"Total commits found", Len(out.commits)>>>>
        ELSE <<>>)
    \o (IF flags["pullRequests"]
        THEN <<<<"Repositories with PRs", IF out.pullRequests # <<>> THEN 1 ELSE 0>>,
               <<"Total pull requests found", Len(out.pullRequests)>>>>
        ELSE <<>>)
    \o (IF flags["codeReviews"]
        THEN <<<<"Repositories with reviews", IF out.codeReviews # <<>> THEN 1 ELSE 0>>,
               <<"Total code reviews found", Len(out.codeReviews)>>>>
        ELSE <<>>)

\* the objects of the remote API: a commit, the hit of a search and the
\* full pull request of a number, the reviews of a pull request
ACommit(aware) ==
    WithDate(ApiObject("commit", Some(<<"a">>), None, None), DateTime(AtSince, aware))

AnIssue(number, aware) ==
    WithDate(WithPull(ApiObject("issue", None, Some(<<"a">>), None),
                      [NoPull EXCEPT !.number = number]),
             DateTime(AtSince, aware))

APull(number, aware) ==
    WithDate(WithPull(ApiObject("pull", None, Some(<<"a">>), None),
                      [NoPull EXCEPT !.number = number, !.merged = TRUE,
                                     !.merge_commit_sha = Some(MergeSha)]),
             DateTime(AtSince, aware))

AReview(user, state, date) ==
    WithDate(WithReview(ApiObject("review", None, None, Some(<<"a">>)), user, state), date)

\* my approved review at the since-date, and the reviews that differ from it
\* in one respect: earlier, of no date, dismissed, of somebody else, of nobody
Reviews(aware) ==
    {AReview(Some(Me), "APPROVED", DateTime(AtSince, aware)),
     AReview(Some(Me), "APPROVED", DateTime(Early, aware)),
     AReview(Some(Me), "APPROVED", NoTime),
     AReview(Some(Me), "DISMISSED", DateTime(AtSince, aware)),
     AReview(Some(Other), "APPROVED", DateTime(AtSince, aware)),
     AReview(None, "APPROVED", DateTime(AtSince, aware))}

\* a hit of a search: is it a pull request, does its URL parse, does the
\* fetch of its details succeed, does the transform raise on the full pull
\* request (pr.base.repo.owner.login of a repository that is gone), does the
\* fetch of its reviews fail, and its reviews
Hit(number, aware, pull_request, url_ok, details, raises, reviews_fail, reviews) ==
    [issue |-> AnIssue(number, aware), full_pr |-> APull(number, aware),
     pull_request |-> pull_request, url_ok |-> url_ok, details |-> details,
     raises |-> raises, reviews_fail |-> reviews_fail, reviews |-> reviews]

\* the hits of the pull-request search for a number
PullRequestHits(number, aware) ==
    {Hit(number, aware, FALSE, TRUE, "ok", FALSE, FALSE, <<>>),
     Hit(number, aware, TRUE, FALSE, "ok", FALSE, FALSE, <<>>),
     Hit(number, aware, TRUE, TRUE, "fails", FALSE, FALSE, <<>>),
     Hit(number, aware, TRUE, TRUE, "ok", TRUE, FALSE, <<>>),
     Hit(number, aware, TRUE, TRUE, "ok", FALSE, FALSE, <<>>)}

\* the hits of the review search for a number
CodeReviewHits(number, aware) ==
    {Hit(number, aware, FALSE, TRUE, "ok", FALSE, FALSE, <<>>),
     Hit(number, aware, TRUE, FALSE, "ok", FALSE, FALSE, <<>>),
     Hit(number, aware, TRUE, TRUE, "fails", FALSE, FALSE, <<>>),
     Hit(number, aware, TRUE, TRUE, "ok", FALSE, TRUE, <<>>)}
    \cup {Hit(number, aware, TRUE, TRUE, "ok", raises, FALSE, reviews) :
             raises \in BOOLEAN, reviews \in SeqsUpTo(Reviews(aware), MaxReviews)}

\* the number of the k-th hit of a search
HitNumber(k) == IF k = 1 THEN 7 ELSE 40 + k

\* the lists of hits a search can give: the k-th hit is one of the hits of
\* the k-th number
HitLists(HitsOf(_), n) ==
    UNION {{hits \in [1..len -> UNION {HitsOf(HitNumber(k)) : k \in 1..len}] :
               \A k \in 1..len : hits[k] \in HitsOf(HitNumber(k))} : len \in 0..n}

\* the repositories of the user: listing the commits of one raises, or gives
\* its commits of the user
Repos(aware) ==
    {[raises |-> TRUE, commits |-> <<>>]}
    \cup {[raises |-> FALSE, commits |-> commits] : commits \in SeqsUpTo({ACommit(aware)}, 1)}

\* the answers of the remote API
RepoAnswers(aware) ==
    {Answer("repos", TRUE, <<>>)}
    \cup {Answer("repos", FALSE, repos) : repos \in SeqsUpTo(Repos(aware), MaxRepos)}

PullRequestAnswers(aware) ==
    {Answer("pulls", TRUE, <<>>)}
    \cup {Answer("pulls", FALSE, hits) :
             hits \in HitLists(LAMBDA number : PullRequestHits(number, aware), MaxHits)}

CodeReviewAnswers(aware) ==
    {Answer("reviews", TRUE, <<>>)}
    \cup {Answer("reviews", FALSE, hits) :
             hits \in HitLists(LAMBDA number : CodeReviewHits(number, aware), MaxHits)}

NoSummary == <<>>

FtIdle ==
    /\ ftArgs = [flags |-> NoFlags, since_date |-> None]
    /\ ftAware = FALSE
    /\ ftPc = "idle"
    /\ ftAnswer = NoAnswer
    /\ ftOut = NoOut
    /\ ftLog = <<>>
    /\ ftSummary = NoSummary

\* the types of a run: any of them, the reviews on their own (the three
\* blocks of process_repositories write fields of their own)
FetchFlags == {flags \in [Types -> BOOLEAN] \ {NoFlags} :
                  flags["codeReviews"] => flags = Flags(FALSE, FALSE, TRUE)}

FtStart ==
    /\ ftArgs \in [flags : FetchFlags, since_date : Nullable({SinceDate})]
    /\ ftAware \in BOOLEAN
    /\ ftPc = "commits"
    /\ ftAnswer = NoAnswer
    /\ ftOut = NoOut
    /\ ftLog = <<>>
    /\ ftSummary = NoSummary

\* process_repositories, `if fetch_commits_flag:` fetch_user_repos, which may
\* raise, and the loop over the repositories
FtCommits ==
    /\ ftPc = "commits"
    /\ ftArgs.flags["commits"]
    /\ \E answer \in RepoAnswers(ftAware) :
          /\ ftAnswer' = answer
          /\ IF answer.raises
             THEN ftPc' = "raised" /\ UNCHANGED <<ftOut, ftLog>>
             ELSE /\ ftOut' = after_commits(ftOut, answer).out
                  /\ ftLog' = ftLog \o after_commits(ftOut, answer).log
                  /\ ftPc' = "pullRequests"
    /\ UNCHANGED <<ftArgs, ftAware, ftSummary>>
    /\ UNCHANGED notFt

\* process_repositories, `if fetch_prs_flag:`
FtPullRequests ==
    /\ ftPc = "pullRequests"
    /\ ftArgs.flags["pullRequests"]
    /\ \E answer \in PullRequestAnswers(ftAware) :
          /\ ftAnswer' = answer
          /\ ftOut' = after_pull_requests(ftOut, answer).out
          /\ ftLog' = ftLog \o after_pull_requests(ftOut, answer).log
    /\ ftPc' = "codeReviews"
    /\ UNCHANGED <<ftArgs, ftAware, ftSummary>>
    /\ UNCHANGED notFt

\* process_repositories, `if fetch_code_reviews_flag:`
FtCodeReviews ==
    /\ ftPc = "codeReviews"
    /\ ftArgs.flags["codeReviews"]
    /\ \E answer \in CodeReviewAnswers(ftAware) :
          /\ ftAnswer' = answer
          /\ ftOut' = after_code_reviews(ftOut, answer, ftArgs.since_date).out
          /\ ftLog' = ftLog \o after_code_reviews(ftOut, answer, ftArgs.since_date).log
    /\ ftPc' = "summary"
    /\ UNCHANGED <<ftArgs, ftAware, ftSummary>>
    /\ UNCHANGED notFt

\* process_repositories: the block of a type whose flag is not set
FtSkip ==
    /\ ftPc \in Types
    /\ ~ftArgs.flags[ftPc]
    /\ ftPc' = (CASE ftPc = "commits" -> "pullRequests"
                  [] ftPc = "pullRequests" -> "codeReviews"
                  [] OTHER -> "summary")
    /\ UNCHANGED <<ftArgs, ftAware, ftAnswer, ftOut, ftLog, ftSummary>>
    /\ UNCHANGED notFt

\* handle_fetch: display_fetch_summary on what process_repositories returned
FtSummary ==
    /\ ftPc = "summary"
    /\ ftSummary' = display_fetch_summary(ftOut, ftArgs.flags)
    /\ ftPc' = "done"
    /\ UNCHANGED <<ftArgs, ftAware, ftAnswer, ftOut, ftLog>>
    /\ UNCHANGED notFt

-----------------------------------------------------------------------------
(* Specifications *)

CsvInit == CsvStart /\ TrIdle /\ ImpIdle /\ CmIdle /\ CliIdle /\ NmIdle /\ FtIdle
CsvNext == CsvExport \/ CsvParse \/ ExportCommits
SpecCsv == CsvInit /\ [][CsvNext]_vars

TrInit == TrStart /\ CsvIdle /\ ImpIdle /\ CmIdle /\ CliIdle /\ NmIdle /\ FtIdle
TrNext ==
    \/ TransformCommit
    \/ TransformPullRequest
    \/ FallbackPullRequest
    \/ TransformCodeReview
    \/ TransformExport
SpecTransform == TrInit /\ [][TrNext]_vars

ImpInit == ImpStart /\ CsvIdle /\ TrIdle /\ CmIdle /\ CliIdle /\ NmIdle /\ FtIdle
ImpNext == ImportCommits \/ ImportPullRequests \/ ImportCodeReviews \/ ImpAgain
SpecImport == ImpInit /\ [][ImpNext]_vars

CmInit == CmStart /\ CsvIdle /\ TrIdle /\ CliIdle /\ NmIdle /\ FtIdle
CmNext ==
    \/ CmCollect
    \/ CmSkipInvalid
    \/ CmSkipCommitted
    \/ CmCommit
    \/ CmAddFails
    \/ CmCommitFails
    \/ CmReturn
    \/ CmAgain
SpecCommit == CmInit /\ [][CmNext]_vars

CliInit == CliStart /\ CsvIdle /\ TrIdle /\ ImpIdle /\ CmIdle /\ NmIdle /\ FtIdle
CliNext ==
    \/ CliMain
    \/ CliFetch
    \/ CliNoFetch
    \/ CliImport
    \/ CliNoImport
    \/ CliCommit
    \/ CliNoCommit
    \/ CliEnd
SpecCli == CliInit /\ [][CliNext]_vars

NmInit == NmStart /\ CsvIdle /\ TrIdle /\ ImpIdle /\ CmIdle /\ CliIdle /\ FtIdle
NmNext == NmName \/ NmParse \/ NmGitDate
SpecNames == NmInit /\ [][NmNext]_vars

FtInit == FtStart /\ CsvIdle /\ TrIdle /\ ImpIdle /\ CmIdle /\ CliIdle /\ NmIdle
FtNext == FtCommits \/ FtPullRequests \/ FtCodeReviews \/ FtSkip \/ FtSummary
SpecFetch == FtInit /\ [][FtNext]_vars

-----------------------------------------------------------------------------
(* C2 *)

\* the value read back for a header of a record: the original, trimmed
RoundTripOk(data, parsed) ==
    /\ ~parsed.raised
    /\ Len(parsed.items) = Len(data)
    /\ \A i \in 1..Len(data) : \A j \in 1..Len(CsvHeaders) :
          LET h == CsvHeaders[j]
          IN  h \in DOMAIN parsed.items[i] /\ parsed.items[i][h] = Strip(data[i][h])

\* C2: exporting a record list with array_to_csv and reading the text back
\* with parse_csv_file returns, for every header of every record, the
\* original value up to whitespace trimming, also for values holding a
\* comma, a double quote or a newline.
C2_RoundTrip == csvPc = "parsed" => RoundTripOk(csvData, csvParsed)

\* C20: once a record list is exported, the CSV file of its type exists
\* and holds the header row and one row for each record of the list, and
\* nothing else: only the header row for an empty list, whatever the file
\* held before.
C20_ExportReplaces ==
    csvPc = "written" =>
        LET rows == NonBlank(CsvReader(csvFile.text))
        IN  /\ csvFile.exists
            /\ Len(rows) = 1 + Len(csvData)
            /\ rows[1] = CsvHeaders

-----------------------------------------------------------------------------
(* C3 *)

NoLineBreak(text) == ~Contains(text, "\n") /\ ~Contains(text, "\r")

\* the row is one line of the file: its only line break is its terminator
OneLine(row) ==
    LET read == ReadText(row)
    IN  /\ read # <<>>
        /\ read[Len(read)] = "\n"
        /\ ~Contains(SubSeq(read, 1, Len(read) - 1), "\n")

\* C3: every free-text field of every record the transform stage produces
\* holds no newline and no carriage return, and every exported data row is
\* exactly one line.
C3_SingleLine ==
    /\ trPc \in {"transformed", "exported"} =>
          \A i \in 1..Len(FreeText(trRecord)) : NoLineBreak(FreeText(trRecord)[i])
    /\ trPc = "exported" => OneLine(trRow)

\* the record of a pull request has been built
PullRecord == trPc \in {"transformed", "exported"} /\ trRecord.type = "pull-request"

\* C16: for a pull request of no usable commit SHA (not merged and no head,
\* or the record built from the search hit), pr-<number> is the value of
\* the sha field and of the short_sha field of the record.
C16_PlaceholderBoth ==
    (/\ PullRecord
     /\ \/ trApi.kind = "issue"
        \/ trApi.kind = "pull" /\ ~trApi.pull.merged /\ trApi.pull.head.isNone) =>
        /\ trRecord.short_sha = Placeholder(trApi.pull.number)
        /\ trRecord.sha = Some(Placeholder(trApi.pull.number))

\* C17: the sha of the record of a pull request is its merge commit when it
\* is merged, whether it has a head or not, and the head of its branch when
\* it is not merged and has one.
C17_MergeCommitFirst ==
    (PullRecord /\ trApi.kind = "pull") =>
        /\ trApi.pull.merged => trRecord.sha = trApi.pull.merge_commit_sha
        /\ (~trApi.pull.merged /\ ~trApi.pull.head.isNone) => trRecord.sha = trApi.pull.head

\* a merged pull request of a merge commit and of another head was transformed
C17_Witness ==
    /\ PullRecord
    /\ trApi.kind = "pull"
    /\ trApi.pull.merged
    /\ trApi.pull.merge_commit_sha = Some(MergeSha)
    /\ trApi.pull.head = Some(HeadSha)
    /\ trRecord.sha = Some(MergeSha)

\* the timestamp fields of a record
Timestamps(record) ==
    CASE record.type = "commit" -> <<record.author_date>>
      [] record.type = "pull-request" -> <<record.created_at>>
      [] record.type = "code-review" -> <<record.submitted_at>>
      [] OTHER -> <<>>

\* every timestamp of the record that is not empty reads
\* YYYY-MM-DDTHH:MM:SSZ, one Z at its end and no other offset
UtcZ(record) ==
    \A i \in 1..Len(Timestamps(record)) :
        Timestamps(record)[i] # <<>> => MatchesDate(Timestamps(record)[i])

\* C22: when the API client gives datetimes aware of UTC, the representation
\* the transforms are written for, every timestamp of a record that is not
\* empty reads YYYY-MM-DDTHH:MM:SSZ, on the path of the full pull request and
\* on the path of the search hit alike.
C22_TimestampsUtcZ ==
    (trPc \in {"transformed", "exported"} /\ trApi.date.aware) => UtcZ(trRecord)

-----------------------------------------------------------------------------
(* Claims on the import stage *)

\* import_items_from_csv is called for a type and returns
ImportReturns(t) == impPc = t /\ impFlags[t] /\ impPc' # "raised"

\* the rows the CSV reader finds under the header line, before any trimming
RawRows(type, csv) ==
    LET rows == NonBlank(CsvReader(csv.text))
        Col(h) == CHOOSE j \in 1..Len(rows[1]) : rows[1][j] = h
    IN  IF rows = <<>> THEN <<>>
        ELSE [i \in 1..(Len(rows) - 1) |->
                 [date |-> rows[i + 1][Col(DateField(type))],
                  id |-> rows[i + 1][Col(IdField(type))]]]

\* a row has its required fields once trimmed
HasRequired(row) == Strip(row.date) # <<>> /\ Strip(row.id) # <<>>

\* C6: once import_items_from_csv has processed an existing CSV file, the
\* file no longer exists, whatever its rows were.
C6_CsvDeleted == \A t \in Types : impResults[t].ran => ~exports[t].exists

\* C7: the discarded count the import returns is the number of data rows
\* of the CSV minus the number of rows that have their required fields.
C7_Discarded ==
    [][\A t \in Types : ImportReturns(t) =>
          LET rows == RawRows(t, exports[t])
              valid == SelectSeq(rows, HasRequired)
          IN  impResults'[t].stats.discarded = Len(rows) - Len(valid)]_vars

\* C8: the import creates no markdown file for a row whose required fields
\* are empty once trimmed, and every other row has its file, under the one
\* name made of its timestamp and identifier, when the import returns.
C8_ValidRowsOnly ==
    [][\A t \in Types : ImportReturns(t) =>
          LET rows == RawRows(t, exports[t])
              NameOf(row) == format_date_for_filename(Strip(row.date)) \o <<"-">>
                                 \o Strip(row.id) \o DotMd
          IN  /\ \A f \in mdFiles'[t] \ mdFiles[t] :
                    /\ Strip(f.content[DateField(t)]) # <<>>
                    /\ Strip(f.content[IdField(t)]) # <<>>
                    /\ \E i \in 1..Len(rows) : HasRequired(rows[i]) /\ f.name = NameOf(rows[i])
              /\ \A i \in 1..Len(rows) : HasRequired(rows[i]) =>
                    Cardinality({f \in mdFiles'[t] : f.name = NameOf(rows[i])}) = 1]_vars

\* a CSV of one invalid and one valid row was imported: one file was written
C8_Witness ==
    /\ impResults["commits"].ran
    /\ impResults["commits"].stats.discarded = 1
    /\ impResults["commits"].stats.imported = 1

\* C9: importing a type whose CSV is absent raises and leaves the file
\* system as it was: no directory created, no file written, none deleted.
C9_NotFound ==
    [][\A t \in Types : (impPc = t /\ impFlags[t] /\ ~exports[t].exists) =>
          (impPc' = "raised" /\ impError' = t /\ UNCHANGED fsVars)]_vars

\* the import of commits raised on an absent CSV, its directory still absent
C9_Witness ==
    /\ impPc = "raised"
    /\ impError = "commits"
    /\ ~exports["commits"].exists
    /\ ~outDirs["commits"]

\* C10: when import_contributions fails on the missing CSV of a requested
\* type, no work was done: no type was imported before it, no markdown file
\* written, no CSV deleted.
C10_NoPartialWork ==
    (impPc = "raised" /\ ~exports[impError].exists) =>
        \A t \in Types : impResults[t].ran =>
            (impResults[t].stats.imported = 0 /\ exports[t].exists)

\* C11: when import_contributions is run again on CSVs of the rows an
\* earlier run that returned has imported, each import of the later run
\* reports imported = 0 and skipped = the number of valid rows of its CSV,
\* and the markdown files, names and contents, are as the earlier run left
\* them.
C11_ReimportIdempotent ==
    (impPc = "returned" /\ impRun >= 2) =>
        \A t \in Types : impResults[t].ran =>
            /\ impResults[t].stats.imported = 0
            /\ impResults[t].stats.skipped =
                   Len(SelectSeq(RawRows(t, impPrev.exports[t]), HasRequired))
            /\ mdFiles[t] = impPrev.files[t]

\* a second run has skipped the two rows the first run imported
C11_Witness ==
    /\ impPc = "returned"
    /\ impRun = 2
    /\ impResults["commits"].ran
    /\ impResults["commits"].stats.skipped = 2
    /\ Cardinality(impPrev.files["commits"]) = 2
    /\ ~outDirs["pullRequests"]

\* C30: an import that reaches its per-row loop and returns has counted
\* each valid row once, as imported or as skipped, and has created as many
\* markdown files as it counts imported, the files that existed being kept.
C30_CountsAddUp ==
    [][\A t \in Types :
          (ImportReturns(t) /\ impResults'[t].stats.valid > 0) =>
              LET valid == Len(SelectSeq(RawRows(t, exports[t]), HasRequired))
                  stats == impResults'[t].stats
              IN  /\ stats.valid = valid
                  /\ stats.imported + stats.skipped = valid
                  /\ mdFiles[t] \subseteq mdFiles'[t]
                  /\ Cardinality(mdFiles'[t] \ mdFiles[t]) = stats.imported]_vars

\* a CSV of two valid rows of the same file name was imported into an empty
\* directory: one file was written, one row skipped
C30_Witness ==
    /\ impRun = 1
    /\ impResults["commits"].ran
    /\ impResults["commits"].stats.valid = 2
    /\ impResults["commits"].stats.imported = 1
    /\ impResults["commits"].stats.skipped = 1
    /\ impPrev.files["commits"] = {}
    /\ Cardinality(mdFiles["commits"]) = 1

-----------------------------------------------------------------------------
(* Claims on the file names *)

\* the characters of the file names, in the order of their code points
CodePoints ==
    <<"+", "-", ".", "0", "1", "2", "3", "4", "5", "6", "7", "8", "9", ":",
      "T", "Z", "a", "b", "c", "d", "m", "p", "r">>
CodePoint(c) == CHOOSE k \in 1..Len(CodePoints) : CodePoints[k] = c

\* a < b for two strings, as str.__lt__ and sorted() compare them
LexLess(a, b) ==
    \E k \in 1..(Len(b)) :
        /\ k <= Len(a) + 1
        /\ \A n \in 1..(k - 1) : a[n] = b[n]
        /\ k = Len(a) + 1 \/ CodePoint(a[k]) < CodePoint(b[k])

\* the timestamp of a record of the naming pipeline, and its identifier
NmStamp(i) == nmItems[i].row[DateField(nmItems[i].type)]
NmId(i) == nmItems[i].row[IdField(nmItems[i].type)]
NmTime(i) == fromisoformat(NmStamp(i)).fields

\* C12: of two valid records, the one of the earlier timestamp gets the file
\* name that sorts first.
C12_NamesSortByTime ==
    nmPc \in {"named", "parsed", "dated"} =>
        \A i, j \in 1..2 :
            FieldsLess(NmTime(i), NmTime(j)) => LexLess(nmNames[i], nmNames[j])

\* two records named: the earlier one has the later time of day and the
\* greater identifier
C12_Witness ==
    /\ nmPc = "named"
    /\ FieldsLess(NmTime(1), NmTime(2))
    /\ NmTime(1)[4] > NmTime(2)[4]
    /\ LexLess(NmId(2), NmId(1))
    /\ nmItems[1].type # nmItems[2].type

-----------------------------------------------------------------------------
(* Claims on the commit stage *)

\* the file has no timestamp prefix that parses: no match, or no real date
Unparseable(file) ==
    \/ ~parse_date_from_filename(file.name).found
    \/ ~fromisoformat(parse_date_from_filename(file.name).text).ok

C5_UnparseableSkipped ==
    /\ cmPc # "raised"
    /\ cmPc = "returned" =>
          /\ cmStats.skipped >= Cardinality({f \in AllFiles : Unparseable(f)})
          /\ cmStats.committed + cmStats.skipped + cmStats.errors = Cardinality(AllFiles)

\* C14: when git add or git commit exits non-zero for a file, the loop of
\* commit_contributions counts one error, nothing else, and goes on to the
\* next file; the run returns only when every file of the sorted list has
\* been counted.
C14_GitFailureCounted ==
    [][/\ gitFailures' = gitFailures + 1 =>
             /\ cmStats' = [cmStats EXCEPT !.errors = @ + 1]
             /\ cmPc' = "loop"
             /\ cmPos' = cmPos + 1
             /\ cmQueue' = cmQueue
       /\ (cmPc = "loop" /\ cmPc' = "returned") =>
             /\ cmPos > Len(cmQueue)
             /\ cmStats'.committed + cmStats'.skipped + cmStats'.errors = Len(cmQueue)]_vars

\* git add failed for the first file of two and the second was committed
C14_Witness ==
    /\ cmPc = "returned"
    /\ cmRun = 1
    /\ Len(cmQueue) = 2
    /\ cmStats.errors = 1
    /\ cmStats.committed = 1
    /\ git_log(cmQueue[1]) = {}
    /\ git_log(cmQueue[2]) # {}

\* the time a file name stands for
FileTime(file) == fromisoformat(parse_date_from_filename(file.name).text).fields

\* C15: in a run of commit_contributions the files of every selected type
\* are in one sequence, and each commit is created for the next file of the
\* sequence, with the date its name stands for, no earlier than the time of
\* any file before it in the sequence: the commits of a run are created in
\* non-decreasing order of time.
C15_ChronologicalOrder ==
    [][Len(gitLog') > Len(gitLog) =>
          LET new == gitLog'[Len(gitLog')]
          IN  /\ Len(gitLog') = Len(gitLog) + 1
              /\ {cmQueue[k] : k \in 1..Len(cmQueue)} = AllFiles
              /\ cmQueue[cmPos] \in new.files
              /\ new.author_date =
                     format_date_for_git(parse_date_from_filename(cmQueue[cmPos].name).text)
              /\ new.committer_date = new.author_date
              /\ \A k \in 1..(cmPos - 1) :
                     ~FieldsLess(FileTime(cmQueue[cmPos]), FileTime(cmQueue[k]))
              /\ cmPos' = cmPos + 1 /\ cmQueue' = cmQueue]_vars

\* three commits of one run: a review, then a pull request, then a commit
C15_Witness ==
    /\ cmPc = "returned"
    /\ cmRun = 1
    /\ Len(gitLog) = 3
    /\ gitLog[1].files = {[type |-> "codeReviews", name |-> DatedName(TS1)]}
    /\ gitLog[2].files = {[type |-> "pullRequests", name |-> DatedName(TS3)]}
    /\ gitLog[3].files = {[type |-> "commits", name |-> DatedName(TS2)]}

\* C28: every commit of the git history holds one contribution file, the file
\* its message names, and its author date and committer date are the date
\* of the name of that file.
C28_OneFilePerCommit ==
    \A i \in 1..Len(gitLog) :
        \E file \in gitLog[i].files :
            /\ gitLog[i].files = {file}
            /\ gitLog[i].message = CommitMessagePrefix \o file.name
            /\ gitLog[i].author_date = format_date_for_git(parse_date_from_filename(file.name).text)
            /\ gitLog[i].committer_date = gitLog[i].author_date

-----------------------------------------------------------------------------
(* Claims on the command line *)

\* C1: `full` runs the fetch stage, then the import stage, then the commit
\* stage; `both` runs the fetch stage, then the import stage.
C1_StageOrder ==
    (cliPc = "exited" /\ cliExit = 0) =>
        /\ cliOp = "full" => cliTrace = <<"fetch", "import", "commit">>
        /\ cliOp = "both" => cliTrace = <<"fetch", "import">>

\* a types argument the program documents: all, both, or a comma-separated
\* list of names of types, in any case, with or without spaces
WellFormedTypes(types_arg) ==
    LET normalized == LowerText(types_arg)
        types == StripAll(normalized)
    IN  \/ normalized = All
        \/ normalized = Both
        \/ \A i \in 1..Len(types) :
              types[i] \in CommitsNames \cup PullRequestsNames \cup CodeReviewsNames

\* the types argument of the command: the third argument after fetch, the
\* first after import
TypesArg == IF cliOp = "fetch" THEN ArgAt(cliArgs, 3) ELSE ArgAt(cliArgs, 1)

\* C18: a fetch or an import whose types argument holds a token that is no
\* name of a type does no stage work and exits with a status other than 0.
C18_BadTypesRejected ==
    (cliOp \in {"fetch", "import"} /\ TypesArg # <<>> /\ ~WellFormedTypes(TypesArg)) =>
        /\ cliWork = <<>>
        /\ cliPc = "exited" => cliExit # 0

\* a since-date, an affiliation and a types argument, all three valid
ValidFetchArgs(args_list) ==
    /\ Len(args_list) = 3
    /\ \A k \in 1..3 : args_list[k] # <<>>
    /\ ~parse_args(args_list).exit
    /\ WellFormedTypes(args_list[3])

\* C19: when both or full was given valid fetch arguments, and the fetch
\* stage has worked and written a CSV file, the import stage goes to work
\* on CSV files that exist.
C19_ImportAfterFetch ==
    [][(/\ cliPc = "import"
        /\ cliOp \in {"both", "full"}
        /\ ValidFetchArgs(cliArgs)
        /\ \E i \in 1..Len(cliWork) : cliWork[i].stage = "fetch" /\ cliWork[i].csv # {}) =>
          /\ Len(cliWork') = Len(cliWork) + 1
          /\ cliWork'[Len(cliWork')].stage = "import"
          /\ cliWork'[Len(cliWork')].flags # NoFlags
          /\ \A t \in Types : cliWork'[Len(cliWork')].flags[t] => cliCsv[t]]_vars

\* the types a types argument names: every type for `all`, commits and pull
\* requests for `both`, otherwise the types whose names are in the list
NamesType(types_arg, t) ==
    LET normalized == LowerText(types_arg)
        types == StripAll(normalized)
    IN  \/ normalized = All
        \/ normalized = Both /\ t \in {"commits", "pullRequests"}
        \/ t = "commits" /\ Named(types, CommitsNames)
        \/ t = "pullRequests" /\ Named(types, PullRequestsNames)
        \/ t = "codeReviews" /\ Named(types, CodeReviewsNames)

\* the fetch stage went to work on the arguments of the command line
FetchWorkedOnArgs(i) ==
    /\ cliWork[i].stage = "fetch"
    /\ \E k \in 1..Len(cliArgs) : cliArgs[k] # <<>>

\* C26: a fetch given a types argument fetches exactly the types the argument
\* names; a fetch given arguments without a types argument fetches commits
\* only.
C26_TypesSelect ==
    \A i \in 1..Len(cliWork) :
        FetchWorkedOnArgs(i) =>
            IF ArgAt(cliArgs, 3) = <<>>
            THEN cliWork[i].flags = Flags(TRUE, FALSE, FALSE)
            ELSE WellFormedTypes(ArgAt(cliArgs, 3)) =>
                    \A t \in Types : cliWork[i].flags[t] <=> NamesType(ArgAt(cliArgs, 3), t)

\* a fetch given `pr,reviews` went to work on pull requests and reviews, and
\* not on commits
C26_Witness ==
    /\ Len(cliWork) > 0
    /\ FetchWorkedOnArgs(1)
    /\ ArgAt(cliArgs, 3) = <<"p", "r", ",", "r", "e", "v", "i", "e", "w", "s">>
    /\ cliWork[1].flags = Flags(FALSE, TRUE, TRUE)

\* C27: a fetch started with GITHUB_TOKEN or GITHUB_USERNAME missing makes the
\* process exit with status 1, and neither calls the remote API nor writes a
\* CSV file.
C27_EnvironmentFirst ==
    [][(/\ cliPc = "fetch"
        /\ cliOp \in {"fetch", "both"}
        /\ ~(cliEnv.token /\ cliEnv.username)) =>
          /\ cliPc' = "exited"
          /\ cliExit' = 1
          /\ cliWork' = cliWork
          /\ cliCsv' = cliCsv]_vars

\* a fetch with the token set and the username missing has exited with 1,
\* having done no work
C27_Witness ==
    /\ cliEnv.token /\ ~cliEnv.username
    /\ cliTrace = <<"fetch">>
    /\ cliSuccess = <<"failure">>
    /\ cliPc = "exited" /\ cliExit = 1
    /\ cliWork = <<>>

\* C29: in `both` and `full`, a stage that does not return success is the
\* last stage started: the process has exited with status 1 and "All
\* operations complete!" was not printed.
C29_StopAtFailure ==
    cliOp \in {"both", "full"} =>
        /\ Len(cliSuccess) = Len(cliTrace)
        /\ \A i \in 1..Len(cliSuccess) :
              cliSuccess[i] # "success" =>
                  /\ i = Len(cliTrace)
                  /\ cliPc = "exited"
                  /\ cliExit = 1
                  /\ ~cliComplete
        /\ cliComplete => \A i \in 1..Len(cliSuccess) : cliSuccess[i] = "success"

\* `both`: the fetch stage succeeded, the import stage failed, and the
\* process exited with 1 without the message
C29_Witness ==
    /\ cliOp = "both"
    /\ cliTrace = <<"fetch", "import">>
    /\ cliSuccess = <<"success", "failure">>
    /\ cliPc = "exited" /\ cliExit = 1
    /\ ~cliComplete

-----------------------------------------------------------------------------
(* Claims on the fetch stage *)

\* the records a search returns for a hit on its own
PullRequestsOf(hit) == search_user_pull_requests(Answer("pulls", FALSE, <<hit>>)).list

CodeReviewsOf(hit, since_date) ==
    search_user_code_reviews(Answer("reviews", FALSE, <<hit>>), Me, since_date).list

\* the records of the hits, each on its own, in the order of the hits
EachOnItsOwn(hits, Of(_)) ==
    LET upTo[k \in 0..Len(hits)] == IF k = 0 THEN <<>> ELSE upTo[k - 1] \o Of(hits[k])
    IN  upTo[Len(hits)]

\* C23: in the pull-request and review searches a failure on one hit (its
\* URL, its details, the transform of its data) touches that hit alone: the
\* search that iterated its hits returns, hit by hit, the records each hit
\* gives on its own.
C23_FailureAffectsOnlyThatHit ==
    /\ (ftAnswer.kind = "pulls" /\ ~ftAnswer.raises) =>
           ftOut.pullRequests = EachOnItsOwn(ftAnswer.items, PullRequestsOf)
    /\ (ftAnswer.kind = "reviews" /\ ~ftAnswer.raises) =>
           ftOut.codeReviews =
               EachOnItsOwn(ftAnswer.items, LAMBDA hit : CodeReviewsOf(hit, ftArgs.since_date))


\* what becomes of a hit of the pull-request search
DetailsFail(hit) == hit.pull_request /\ hit.url_ok /\ hit.details = "fails"
Transformed(hit) == hit.pull_request /\ hit.url_ok /\ hit.details = "ok" /\ ~hit.raises
TransformRaises(hit) == hit.pull_request /\ hit.url_ok /\ hit.details = "ok" /\ hit.raises

\* the records returned for the pull request of a number
RecordsOf(records, number) == SelectSeq(records, LAMBDA record : record.number = number)

C25_ReviewsFiltered ==
    \A i \in 1..Len(ftOut.codeReviews) :
        LET record == ftOut.codeReviews[i]
        IN  /\ record.reviewer_name = Me
            /\ record.state # "DISMISSED"
            /\ ~ftArgs.since_date.isNone =>
                   /\ record.submitted_at # <<>>
                   /\ ~LexLess(record.submitted_at, ftArgs.since_date.text)

\* with a since-date, a pull request with two reviews of the user, one a
\* second before the since-date and one at it: the second alone is returned
C25_Witness ==
    /\ ftAnswer.kind = "reviews"
    /\ ~ftArgs.since_date.isNone
    /\ Len(ftAnswer.items) = 1
    /\ Len(ftAnswer.items[1].reviews) = 2
    /\ \A k \in 1..2 : /\ ftAnswer.items[1].reviews[k].user = Some(Me)
                       /\ ftAnswer.items[1].reviews[k].state = "APPROVED"
    /\ ftAnswer.items[1].reviews[1].date.at = Early
    /\ ftAnswer.items[1].reviews[2].date.at = AtSince
    /\ Len(ftOut.codeReviews) = 1
    /\ ftOut.codeReviews[1].submitted_at = SinceDate


\* an answer of the remote API without the errors: a repository whose
\* listing fails has no commit of the user, a search that fails has no hit,
\* a hit that fails is not there, a pull request whose reviews cannot be
\* fetched has none
WithoutErrors(answer, since_date) ==
    CASE answer.kind = "repos" ->
             [answer EXCEPT !.items = [k \in 1..Len(answer.items) |->
                 IF answer.items[k].raises THEN [raises |-> FALSE, commits |-> <<>>]
                 ELSE answer.items[k]]]
      [] answer.kind = "pulls" ->
             [answer EXCEPT !.raises = FALSE,
                            !.items = SelectSeq(answer.items, LAMBDA hit :
                                          ~hit.pull_request \/ Transformed(hit))]
      [] answer.kind = "reviews" ->
             [answer EXCEPT !.raises = FALSE,
                            !.items = SelectSeq(answer.items, LAMBDA hit :
                                /\ ~hit.reviews_fail
                                /\ code_review_hit(hit, Me, since_date,
                                                   Collected(<<>>, <<>>, FALSE)).log = <<>>
                                /\ ~code_review_hit(hit, Me, since_date,
                                                    Collected(<<>>, <<>>, FALSE)).raised)]
      [] OTHER -> answer

\* what a block of process_repositories makes of an answer
AfterAnswer(out, answer, since_date) ==
    CASE answer.kind = "repos" -> after_commits(out, answer)
      [] answer.kind = "pulls" -> after_pull_requests(out, answer)
      [] answer.kind = "reviews" -> after_code_reviews(out, answer, since_date)
      [] OTHER -> [out |-> out, log |-> <<>>]

\* C21: an error the fetch stage catches and skips shows in a count of the
\* fetch summary: the summary after a block that printed an error differs
\* from the summary the same block gives for the answer without the errors,
\* which has fewer results and prints no error.
C21_ErrorsCounted ==
    [][(ftLog' # ftLog) =>
           LET clean == AfterAnswer(ftOut, WithoutErrors(ftAnswer', ftArgs.since_date),
                                    ftArgs.since_date)
           IN  clean.log = <<>> =>
                   display_fetch_summary(ftOut', ftArgs.flags)
                       # display_fetch_summary(clean.out, ftArgs.flags)]_vars

====
